---- MODULE Spec2Model ----
(***************************************************************************)
(* A model of the trading engine's live executor (executor/okx.py) and of  *)
(* its telemetry writer (client/influxdb.py).                              *)
(*                                                                         *)
(* Numbers.  The program computes with floats; the model uses fixed point: *)
(* capital is counted in cents, a position scale in percent (ScaleUnit is  *)
(* 1.0), a price in whole quote units.  None is encoded as 0 for           *)
(* entry_price (prices are positive) and holding_size "0" as 0.            *)
(***************************************************************************)
EXTENDS Integers, Sequences, FiniteSets, TLC

VARIABLES
    \* ---- OkxExcutor (executor/okx.py) ----
    context,        \* NewContext: the fields execute() reads and writes
    confirmArg,     \* the action last passed to strategy.confirm
    escaped,        \* an exception left ack(): trade.run stops iterating
    bars,           \* number of candles fed to ack so far
    \* history of the last ack, kept to state the properties
    pre,            \* context when the last ack started
    lastAction,     \* the action strategy.ack returned
    lastPrice,      \* close of the candle
    calls,          \* exchange calls of the last ack, in order
    sleeps,         \* time.sleep delays of the last ack, in order
    outcome,        \* "none", "done", "abandoned" or "escaped"
    closeOut,       \* what close_position answers, per attempt
    openOut,        \* what place_order answers, per attempt
    levCalls,       \* set_leverage calls of the whole run
    orderBeforeLev, \* an order call was made before any set_leverage call
    \* ---- InfluxClient (client/influxdb.py) ----
    queue,          \* self._queue: lines and wake markers, oldest first
    unfinished,     \* the queue's count of tasks not yet marked done
    closed,         \* self._closed
    flush_now,      \* self._flush_now
    batch,          \* the worker's local batch
    flush_retries,  \* the worker's local retry counter
    deadlinePassed, \* time.monotonic() >= the worker's deadline
    wpc,            \* where the worker thread is in _run_flush_worker
    mpc,            \* where the calling thread is in write/flush/close
    written,        \* lines handed to write() so far
    flushes,        \* flush() calls so far
    closes,         \* close() calls so far
    \* history, kept to state the properties
    posted,         \* lines that were in a successful POST
    dropped,        \* lines dropped with their batch
    flushSnap,      \* lines enqueued before the running flush() call
    flushReturns,   \* flush() calls that went through the wait and returned
    undelivered,    \* lines of flushSnap neither posted nor dropped at return
    attempts,       \* POSTs tried since the batch was last emptied
    backoffs,       \* backoff delays slept since then, in tenths of a second
    postedSeq,      \* the lines of the successful POSTs, in POST order
    batchFailures,  \* per line of the batch, the failed POSTs it was in
    \* ---- CandleChannel (source/okx.py) and the live loop (trade.py) ----
    chQueue,        \* self._queue: candles and sentinels, oldest first
    stopped,        \* self._stopped
    rpc,            \* where the websocket thread is in _ws_loop
    msgLeft,        \* entries of the message being handled, not yet put
    feedPos,        \* entries of the exchange's feed sent so far
    subscribed,     \* a subscription was made and no message came since
    drops,          \* connections that ended so far
    cpc,            \* where the consuming thread is in trade.run
    cur,            \* the candle __next__ returned last
    runDone,        \* trade.run is over; __next__ calls are later calls
    kpc,            \* where another thread is in CandleChannel.close
    \* history, kept to state the properties
    delivered,      \* the candles __next__ returned, in order
    acked,          \* the candles passed to executor.ack, in order
    raisedStop,     \* the last __next__ call raised StopIteration
    slept,          \* the reconnect delays slept, in seconds
    dropMark,       \* Len(delivered) when the last connection ended
    \* ---- the backtest (execution/backtester.py and its overlays) ----
    rows,           \* Backtester._rows, each with the base signal of its bar
    strategies,     \* the overlays of the last evaluate(), in list order
    result,         \* what the last evaluate() computed
    \* ---- the streaming backtester (executor/backtester.py) ----
    _equity_history,    \* (timestamp, equity) of every candle
    _drawdown_history,  \* (timestamp, drawdown) of every candle
    _sharpe_history,    \* (timestamp, Sharpe value) of every candle
    _peak_equity,       \* the highest equity so far, or None
    _prev_equity,       \* the equity after the previous candle, or None
    _first_ts_ns,       \* the first candle's time, or None
    _last_ts_ns,        \* the last candle's time, or None
    _return_count,      \* the number of return samples
    _return_mean,       \* their running mean
    _return_m2,         \* their running sum of squared deviations
    streamConfirm,      \* strategy.confirm: calls so far, last candle and action
    \* ---- the live paper trader (execution/future.py) ----
    paperPc,            \* what the caller of update/evaluate does next
    paperStrategies,    \* the overlays it passes to evaluate, in list order
    paperCtx,           \* its NewContext
    paperOut,           \* what the last evaluate() computed and returned
    \* ---- the threshold table of the drawdown overlay ----
    sizeArg,            \* the dict the constructor was given, as its items
    sizeTable,          \* self.thresh_hold
    sizeBar,            \* the drawdown and position of a bar, and the result
    \* ---- the incremental EMA crossover (signal/macross.py) ----
    _ema_s,             \* the short EMA
    _ema_l,             \* the long EMA
    _prev_diff,         \* short EMA - long EMA of the bar before
    _position,          \* the position held: +1, -1 or 0
    _bar_count,         \* the closes stepped through
    _close_buffer,      \* the closes kept to seed the EMAs
    stepIn,             \* the closes step() was called with, in order
    stepOut,            \* what step() returned, in order
    \* ---- the function-style live executor (executor/future.py) ----
    futureContext,      \* Future._context
    futureLast,         \* the last ack: context before, action, calls made
    \* ---- the stop-loss overlay over sized positions (strategy/stoploss.py) ----
    stopFrame,          \* the frame it is given: close and position per bar
    stopOut             \* the position column it returns

okxVars == <<context, confirmArg, escaped, bars, pre, lastAction, lastPrice,
             calls, sleeps, outcome, closeOut, openOut, levCalls,
             orderBeforeLev>>

influxVars == <<queue, unfinished, closed, flush_now, batch, flush_retries,
                deadlinePassed, wpc, mpc, written, flushes, closes, posted,
                dropped, flushSnap, flushReturns, undelivered, attempts,
                backoffs, postedSeq, batchFailures>>

liveVars == <<chQueue, stopped, rpc, msgLeft, feedPos, subscribed, drops,
              cpc, cur, runDone, kpc, delivered, acked, raisedStop, slept,
              dropMark>>

backtestVars == <<rows, strategies, result>>

streamVars == <<_equity_history, _drawdown_history, _sharpe_history,
                _peak_equity, _prev_equity, _first_ts_ns, _last_ts_ns,
                _return_count, _return_mean, _return_m2, streamConfirm>>

paperVars == <<paperPc, paperStrategies, paperCtx, paperOut>>

bandVars == <<sizeArg, sizeTable, sizeBar>>

crossVars == <<_ema_s, _ema_l, _prev_diff, _position, _bar_count,
               _close_buffer, stepIn, stepOut>>

futureVars == <<futureContext, futureLast>>

stopVars == <<stopFrame, stopOut>>

vars == <<okxVars, influxVars, liveVars, backtestVars, streamVars, paperVars,
          bandVars, crossVars, futureVars, stopVars>>

\* what the steps of one component leave alone
notOkx ==
    <<influxVars, liveVars, backtestVars, streamVars, paperVars,
      bandVars, crossVars, futureVars,
      stopVars>>

notInflux ==
    <<okxVars, liveVars, backtestVars, streamVars, paperVars,
      bandVars, crossVars, futureVars,
      stopVars>>

notLive ==
    <<okxVars, influxVars, backtestVars, streamVars, paperVars,
      bandVars, crossVars, futureVars,
      stopVars>>

notBacktest ==
    <<okxVars, influxVars, liveVars, streamVars, paperVars,
      bandVars, crossVars, futureVars,
      stopVars>>

notStream ==
    <<okxVars, influxVars, liveVars, backtestVars, paperVars,
      bandVars, crossVars, futureVars,
      stopVars>>

notPaper ==
    <<okxVars, influxVars, liveVars, backtestVars, streamVars,
      bandVars, crossVars, futureVars,
      stopVars>>

notBand ==
    <<okxVars, influxVars, liveVars, backtestVars, streamVars,
      paperVars, crossVars, futureVars,
      stopVars>>

notCross ==
    <<okxVars, influxVars, liveVars, backtestVars, streamVars,
      paperVars, bandVars, futureVars,
      stopVars>>

notFuture ==
    <<okxVars, influxVars, liveVars, backtestVars, streamVars,
      paperVars, bandVars, crossVars,
      stopVars>>

notStop ==
    <<okxVars, influxVars, liveVars, backtestVars, streamVars,
      paperVars, bandVars, crossVars,
      futureVars>>

----------------------------------------------------------------------------
\* Bounds and program constants

MaxBars == 3

Prices == {100, 125}

Sizes == {50, 100}

ScaleUnit == 100

InitialCapital == 100000

None == 0

SHORT == 0 - 1

FLAT == 0

LONG == 1

max_retries == 3

retry_delay == 2

CloseAttempts == 2

HasClient == TRUE

----------------------------------------------------------------------------
\* Actions (strategy/action.py)

NoAction == [kind |-> "NoAction"]

Close == [kind |-> "Close"]

Open(side, size) == [kind |-> "Open", side |-> side, size |-> size]

Adjust(side, size) == [kind |-> "Adjust", side |-> side, size |-> size]

Actions ==
    {NoAction, Close}
    \cup {Open(s, z) : s \in {SHORT, LONG}, z \in Sizes}
    \cup {Adjust(s, z) : s \in {SHORT, LONG}, z \in Sizes}

SideName(side) ==
    IF side = LONG THEN "LONG" ELSE IF side = SHORT THEN "SHORT" ELSE "FLAT"

\* confirmArg before strategy.confirm was ever called
NotConfirmed == [kind |-> "none"]

----------------------------------------------------------------------------
\* NewContext as constructed

NewContext ==
    [capital |-> InitialCapital,
     position |-> FLAT,
     entry_price |-> None,
     entry_scale |-> ScaleUnit,
     holding_size |-> 0,
     initial_capital |-> InitialCapital,
     trades |-> <<>>,
     leverage_set |-> FALSE]

\* one call made to the exchange client, with the exposure the context
\* recorded when the call was made
Call(op, ok, ctx) == [op |-> op, ok |-> ok, holding |-> ctx.holding_size]

\* Client.place_order returns an Order whose price is the limit price it was
\* given: None for the market orders the executor places
OrderPrice == None

\* SetLeverage without the assignment that remembers the call
SetLeverage_forgets(ctx, levOk) ==
    IF HasClient /\ ~ctx.leverage_set
    THEN [ctx |-> ctx,
          calls |-> <<Call("set_leverage", levOk, ctx)>>,
          raised |-> ~levOk]
    ELSE [ctx |-> ctx, calls |-> <<>>, raised |-> FALSE]

\* the leverage block at the head of execute()
SetLeverage(ctx, levOk) ==
    IF HasClient /\ ~ctx.leverage_set
    THEN IF levOk
         THEN [ctx |-> [ctx EXCEPT !.leverage_set = TRUE],
               calls |-> <<Call("set_leverage", TRUE, ctx)>>,
               raised |-> FALSE]
         ELSE [ctx |-> ctx,
               calls |-> <<Call("set_leverage", FALSE, ctx)>>,
               raised |-> TRUE]
    ELSE [ctx |-> ctx, calls |-> <<>>, raised |-> FALSE]

\* _execute_close that logs a failed close_position and returns
_execute_close_swallows(ctx, cOut) ==
    IF ctx.holding_size = 0
    THEN [ctx |-> ctx, calls |-> <<>>, raised |-> FALSE]
    ELSE IF cOut[1]
    THEN [ctx |-> [ctx EXCEPT !.holding_size = 0],
          calls |-> <<Call("close_position", TRUE, ctx)>>,
          raised |-> FALSE]
    ELSE [ctx |-> ctx,
          calls |-> <<Call("close_position", FALSE, ctx)>>,
          raised |-> FALSE]

\* _execute_close that clears holding_size before it calls the exchange
_execute_close_clears_first(ctx, cOut) ==
    IF ctx.holding_size = 0
    THEN [ctx |-> ctx, calls |-> <<>>, raised |-> FALSE]
    ELSE [ctx |-> [ctx EXCEPT !.holding_size = 0],
          calls |-> <<Call("close_position", cOut[1], ctx)>>,
          raised |-> ~cOut[1]]

\* OkxExcutor._execute_close
_execute_close(ctx, cOut) ==
    IF ~HasClient
    THEN [ctx |-> ctx, calls |-> <<>>, raised |-> TRUE]
    ELSE IF ctx.holding_size = 0
    THEN [ctx |-> ctx, calls |-> <<>>, raised |-> FALSE]
    ELSE IF cOut[1]
    THEN [ctx |-> [ctx EXCEPT !.holding_size = 0],
          calls |-> <<Call("close_position", TRUE, ctx)>>,
          raised |-> FALSE]
    ELSE [ctx |-> ctx,
          calls |-> <<Call("close_position", FALSE, ctx)>>,
          raised |-> TRUE]

Pnl(ctx, price) ==
    IF ctx.position = 1
    THEN ((price - ctx.entry_price) * ctx.capital * ctx.entry_scale)
            \div (ctx.entry_price * ScaleUnit)
    ELSE ((ctx.entry_price - price) * ctx.capital * ctx.entry_scale)
            \div (ctx.entry_price * ScaleUnit)

\* _close_position that realises the profit without logging the trade
_close_position_unlogged(ctx, price, ts, cOut) ==
    IF ctx.position = 0 \/ ctx.entry_price = None
    THEN [ctx |-> ctx, calls |-> <<>>, raised |-> FALSE]
    ELSE LET ex == IF HasClient
                   THEN _execute_close(ctx, cOut)
                   ELSE [ctx |-> ctx, calls |-> <<>>, raised |-> FALSE]
         IN  IF ex.raised
             THEN [ctx |-> ex.ctx, calls |-> ex.calls, raised |-> TRUE]
             ELSE [ctx |-> [ex.ctx EXCEPT
                              !.capital = @ + Pnl(ex.ctx, price),
                              !.entry_price = None,
                              !.position = 0,
                              !.holding_size = 0],
                   calls |-> ex.calls,
                   raised |-> FALSE]

\* _close_position that books the close whatever _execute_close reports
_close_position_books_anyway(ctx, price, ts, cOut) ==
    IF ctx.position = 0 \/ ctx.entry_price = None
    THEN [ctx |-> ctx, calls |-> <<>>, raised |-> FALSE]
    ELSE LET ex == _execute_close(ctx, cOut)
             pnl == Pnl(ctx, price)
             cap == ctx.capital + pnl
         IN  [ctx |-> [ctx EXCEPT
                         !.capital = cap,
                         !.trades = Append(ctx.trades,
                             [time |-> ts, action |-> "close",
                              side |-> SideName(ctx.position),
                              price |-> price, pnl |-> pnl,
                              equity |-> cap]),
                         !.entry_price = None,
                         !.position = 0,
                         !.holding_size = 0],
              calls |-> ex.calls,
              raised |-> FALSE]

\* OkxExcutor._close_position
_close_position(ctx, price, ts, cOut) ==
    IF ctx.position = 0 \/ ctx.entry_price = None
    THEN [ctx |-> ctx, calls |-> <<>>, raised |-> FALSE]
    ELSE LET ex == IF HasClient
                   THEN _execute_close(ctx, cOut)
                   ELSE [ctx |-> ctx, calls |-> <<>>, raised |-> FALSE]
         IN  IF ex.raised
             THEN [ctx |-> ex.ctx, calls |-> ex.calls, raised |-> TRUE]
             ELSE LET c == ex.ctx
                      pnl == Pnl(c, price)
                      cap == c.capital + pnl
                  IN  [ctx |-> [c EXCEPT
                                  !.capital = cap,
                                  !.trades = Append(c.trades,
                                      [time |-> ts, action |-> "close",
                                       side |-> SideName(c.position),
                                       price |-> price, pnl |-> pnl,
                                       equity |-> cap]),
                                  !.entry_price = None,
                                  !.position = 0,
                                  !.holding_size = 0],
                       calls |-> ex.calls,
                       raised |-> FALSE]

\* the retry loop with range(1, max_retries): one attempt short
RECURSIVE OpenAttempts_one_short(_, _, _)
OpenAttempts_one_short(attempt, ctx, oOut) ==
    IF attempt >= max_retries
    THEN [calls |-> <<>>, sleeps |-> <<>>, ok |-> FALSE]
    ELSE IF oOut[attempt]
    THEN [calls |-> <<Call("place_order", TRUE, ctx)>>,
          sleeps |-> <<>>, ok |-> TRUE]
    ELSE LET rest == OpenAttempts_one_short(attempt + 1, ctx, oOut)
         IN  [calls |-> <<Call("place_order", FALSE, ctx)>> \o rest.calls,
              sleeps |-> (IF attempt < max_retries
                          THEN <<retry_delay>> ELSE <<>>) \o rest.sleeps,
              ok |-> rest.ok]

\* the retry loop of _execute_open, from attempt number `attempt` on
RECURSIVE OpenAttempts(_, _, _)
OpenAttempts(attempt, ctx, oOut) ==
    IF attempt > max_retries
    THEN [calls |-> <<>>, sleeps |-> <<>>, ok |-> FALSE]
    ELSE IF oOut[attempt]
    THEN [calls |-> <<Call("place_order", TRUE, ctx)>>,
          sleeps |-> <<>>, ok |-> TRUE]
    ELSE LET rest == OpenAttempts(attempt + 1, ctx, oOut)
         IN  [calls |-> <<Call("place_order", FALSE, ctx)>> \o rest.calls,
              sleeps |-> (IF attempt < max_retries
                          THEN <<retry_delay>> ELSE <<>>) \o rest.sleeps,
              ok |-> rest.ok]

Contracts(position_value, price) ==
    LET n == (position_value * 100) \div price
    IN  IF n = 0 THEN 1 ELSE n

\* _execute_open that logs the exhausted retries and returns
_execute_open_swallows(ctx, position, position_value, reference_price, oOut) ==
    LET price == IF reference_price = 0 THEN 1 ELSE reference_price
        loop == OpenAttempts(1, ctx, oOut)
    IN  [calls |-> loop.calls, sleeps |-> loop.sleeps, raised |-> FALSE,
         size |-> Contracts(position_value, price),
         order_price |-> reference_price]

\* OkxExcutor._execute_open: size and order_price, or raised
_execute_open(ctx, position, position_value, reference_price, oOut) ==
    IF ~HasClient
    THEN [calls |-> <<>>, sleeps |-> <<>>, raised |-> TRUE,
          size |-> 0, order_price |-> None]
    ELSE LET price == IF reference_price = 0 THEN 1 ELSE reference_price
             size == Contracts(position_value, price)
             loop == OpenAttempts(1, ctx, oOut)
             order_price == IF OrderPrice = None \/ OrderPrice <= 0
                            THEN reference_price ELSE OrderPrice
         IN  [calls |-> loop.calls, sleeps |-> loop.sleeps,
              raised |-> ~loop.ok,
              size |-> size, order_price |-> order_price]

\* the Open branch of execute()
ExecuteOpen(ctx, action, price, ts, cOut, oOut) ==
    LET cl == _close_position(ctx, price, ts, cOut)
    IN  IF cl.raised
        THEN [ctx |-> cl.ctx, calls |-> cl.calls, sleeps |-> <<>>,
              outcome |-> "abandoned"]
        ELSE LET c == cl.ctx
                 \* capital is in cents and size in percent: the value in
                 \* whole quote units
                 position_value == (c.capital * action.size)
                                      \div (100 * ScaleUnit)
                 op == IF HasClient
                       THEN _execute_open(c, action.side, position_value,
                                          price, oOut)
                       ELSE [calls |-> <<>>, sleeps |-> <<>>,
                             raised |-> FALSE, size |-> c.holding_size,
                             order_price |-> price]
             IN  IF op.raised
                 THEN [ctx |-> c, calls |-> cl.calls \o op.calls,
                       sleeps |-> op.sleeps, outcome |-> "abandoned"]
                 ELSE [ctx |-> [c EXCEPT
                                  !.entry_price = op.order_price,
                                  !.entry_scale = action.size,
                                  !.position = action.side,
                                  !.holding_size = op.size,
                                  !.trades = Append(c.trades,
                                      [time |-> ts, action |-> "open",
                                       side |-> SideName(action.side),
                                       price |-> op.order_price,
                                       equity |-> c.capital])],
                       calls |-> cl.calls \o op.calls,
                       sleeps |-> op.sleeps, outcome |-> "done"]

\* the Close branch of execute()
ExecuteClose(ctx, price, ts, cOut) ==
    LET cl == _close_position(ctx, price, ts, cOut)
    IN  [ctx |-> cl.ctx, calls |-> cl.calls, sleeps |-> <<>>,
         outcome |-> IF cl.raised THEN "abandoned" ELSE "done"]

\* an Adjust branch that also writes off the exposure held
ExecuteAdjust_clears_holding(ctx, action) ==
    [ctx |-> [ctx EXCEPT !.entry_scale = action.size,
                         !.position = action.side,
                         !.holding_size = 0],
     calls |-> <<>>, sleeps |-> <<>>, outcome |-> "done"]

\* the Adjust branch of execute()
ExecuteAdjust(ctx, action) ==
    [ctx |-> [ctx EXCEPT !.entry_scale = action.size,
                         !.position = action.side],
     calls |-> <<>>, sleeps |-> <<>>, outcome |-> "done"]

\* OkxExcutor.execute
execute(ctx, action, price, ts, levOk, cOut, oOut) ==
    LET lev == SetLeverage(ctx, levOk)
    IN  IF lev.raised
        THEN [ctx |-> lev.ctx, calls |-> lev.calls, sleeps |-> <<>>,
              outcome |-> "escaped"]
        ELSE LET r == CASE action.kind = "NoAction" ->
                             [ctx |-> lev.ctx, calls |-> <<>>,
                              sleeps |-> <<>>, outcome |-> "done"]
                        [] action.kind = "Close" ->
                             ExecuteClose(lev.ctx, price, ts, cOut)
                        [] action.kind = "Open" ->
                             ExecuteOpen(lev.ctx, action, price, ts,
                                         cOut, oOut)
                        [] OTHER -> ExecuteAdjust(lev.ctx, action)
             IN  [ctx |-> r.ctx, calls |-> lev.calls \o r.calls,
                  sleeps |-> r.sleeps, outcome |-> r.outcome]

IsOrderCall(c) == c.op \in {"place_order", "close_position"}

\* an order call of this ack came before the run's first set_leverage call
OrderCallBeforeLeverage(prevLevCalls, cs) ==
    \E i \in 1..Len(cs) :
        /\ IsOrderCall(cs[i])
        /\ prevLevCalls = 0
        /\ \A j \in 1..(i - 1) : cs[j].op # "set_leverage"

CountOp(cs, op) == Cardinality({i \in 1..Len(cs) : cs[i].op = op})

\* what the exchange answers to n successive attempts of one call: it fails
\* the first k-1 of them and succeeds from the k-th on (k = n+1: never)
Answers(n) == {[i \in 1..n |-> i >= k] : k \in 1..(n + 1)}

AllOk(n) == [i \in 1..n |-> TRUE]

----------------------------------------------------------------------------
\* The executor as a state machine: one candle per step

OkxVarsInit ==
    /\ context = NewContext
    /\ confirmArg = NotConfirmed
    /\ escaped = FALSE
    /\ bars = 0
    /\ pre = NewContext
    /\ lastAction = NoAction
    /\ lastPrice = 100
    /\ calls = <<>>
    /\ sleeps = <<>>
    /\ outcome = "none"
    /\ closeOut = AllOk(CloseAttempts)
    /\ openOut = AllOk(max_retries)
    /\ levCalls = 0
    /\ orderBeforeLev = FALSE

\* OkxExcutor.ack, called by trade.run for each confirmed candle
Ack ==
    /\ UNCHANGED notOkx
    /\ ~escaped
    /\ bars < MaxBars
    /\ \E price \in Prices, action \in Actions, levOk \in BOOLEAN,
          cOut \in Answers(CloseAttempts),
          oOut \in Answers(max_retries) :
          LET r == execute(context, action, price, bars + 1,
                           levOk, cOut, oOut)
          IN  \* an answer is drawn only for a call that is made
              /\ CountOp(r.calls, "set_leverage") = 0 => levOk
              /\ CountOp(r.calls, "close_position") = 0
                    => cOut = AllOk(CloseAttempts)
              /\ CountOp(r.calls, "place_order") = 0
                    => oOut = AllOk(max_retries)
              /\ context' = r.ctx
              /\ confirmArg' = IF r.outcome = "escaped"
                               THEN confirmArg
                               ELSE action
              /\ escaped' = (r.outcome = "escaped")
              /\ bars' = bars + 1
              /\ pre' = context
              /\ lastAction' = action
              /\ lastPrice' = price
              /\ calls' = r.calls
              /\ sleeps' = r.sleeps
              /\ outcome' = r.outcome
              /\ closeOut' = cOut
              /\ openOut' = oOut
              /\ levCalls' = levCalls + CountOp(r.calls, "set_leverage")
              /\ orderBeforeLev' = (orderBeforeLev
                                    \/ OrderCallBeforeLeverage(levCalls,
                                                               r.calls))

OkxNext == Ack

\* one row of the warm-up loop of OkxExcutor.__init__, run when the
\* executor is given preloaded bars: the strategy is asked and what it
\* answers is confirmed to it; execute is not called
OkxWarmUp ==
    /\ bars = 0
    /\ \E action \in Actions : confirmArg' = action
    /\ UNCHANGED <<context, escaped, bars, pre, lastAction, lastPrice,
                   calls, sleeps, outcome, closeOut, openOut, levCalls,
                   orderBeforeLev>>
    /\ UNCHANGED notOkx

OkxWarmNext == OkxWarmUp \/ Ack

----------------------------------------------------------------------------
\* InfluxClient: a calling thread and the flush worker thread

MaxLines == 3

MaxFlushes == 2

MaxCloses == 2

batch_size == 2

max_flush_retries == 3

\* the _WAKE marker; lines are numbered from 1 in the order they are written
WAKE == 0

\* the backoff starts at 0.5 s and is capped at 2.0 s (tenths of a second)
BackoffBase == 5

BackoffCap == 20

InfluxVarsInit ==
    /\ queue = <<>>
    /\ unfinished = 0
    /\ closed = FALSE
    /\ flush_now = FALSE
    /\ batch = <<>>
    /\ flush_retries = 0
    /\ deadlinePassed = FALSE
    /\ wpc = "loop"
    /\ mpc = "idle"
    /\ written = 0
    /\ flushes = 0
    /\ closes = 0
    /\ posted = {}
    /\ dropped = {}
    /\ flushSnap = {}
    /\ flushReturns = 0
    /\ undelivered = {}
    /\ attempts = 0
    /\ backoffs = <<>>
    /\ postedSeq = <<>>
    /\ batchFailures = <<>>

\* the history only the worker writes
workerHist == <<attempts, backoffs, postedSeq, batchFailures>>

Range(seq) == {seq[i] : i \in 1..Len(seq)}

\* ---- the calling thread ----

\* InfluxClient.write
Write ==
    /\ UNCHANGED notInflux
    /\ UNCHANGED workerHist
    /\ mpc = "idle"
    /\ written < MaxLines
    /\ written' = written + 1
    /\ IF closed
       THEN UNCHANGED <<queue, unfinished>>
       ELSE /\ queue' = Append(queue, written + 1)
            /\ unfinished' = unfinished + 1
    /\ UNCHANGED <<closed, flush_now, batch, flush_retries, deadlinePassed,
                   wpc, mpc, flushes, closes, posted, dropped, flushSnap,
                   flushReturns, undelivered>>

\* InfluxClient.flush, up to self._flush_now.set()
FlushCall ==
    /\ UNCHANGED notInflux
    /\ UNCHANGED workerHist
    /\ mpc = "idle"
    /\ flushes < MaxFlushes
    /\ flushes' = flushes + 1
    /\ IF closed
       THEN UNCHANGED <<flush_now, mpc, flushSnap>>
       ELSE /\ flush_now' = TRUE
            /\ mpc' = "flush_put"
            /\ flushSnap' = 1..written
    /\ UNCHANGED <<queue, unfinished, closed, batch, flush_retries,
                   deadlinePassed, wpc, written, closes, posted, dropped,
                   flushReturns, undelivered>>

\* flush: self._queue.put(self._WAKE)
FlushPut ==
    /\ UNCHANGED notInflux
    /\ UNCHANGED workerHist
    /\ mpc = "flush_put"
    /\ queue' = Append(queue, WAKE)
    /\ unfinished' = unfinished + 1
    /\ mpc' = "flush_join"
    /\ UNCHANGED <<closed, flush_now, batch, flush_retries, deadlinePassed,
                   wpc, written, flushes, closes, posted, dropped, flushSnap,
                   flushReturns, undelivered>>

\* flush: self._queue.join() returns
FlushJoin ==
    /\ UNCHANGED notInflux
    /\ UNCHANGED workerHist
    /\ mpc = "flush_join"
    /\ unfinished = 0
    /\ mpc' = "flush_spin"
    /\ UNCHANGED <<queue, unfinished, closed, flush_now, batch, flush_retries,
                   deadlinePassed, wpc, written, flushes, closes, posted,
                   dropped, flushSnap, flushReturns, undelivered>>

\* flush: the loop on self._flush_now ends and flush returns
FlushSpin ==
    /\ UNCHANGED notInflux
    /\ UNCHANGED workerHist
    /\ mpc = "flush_spin"
    /\ ~flush_now
    /\ mpc' = "idle"
    /\ flushReturns' = flushReturns + 1
    /\ undelivered' = flushSnap \ (posted \cup dropped)
    /\ UNCHANGED <<queue, unfinished, closed, flush_now, batch, flush_retries,
                   deadlinePassed, wpc, written, flushes, closes, posted,
                   dropped, flushSnap>>

\* a close() without the test of self._closed
CloseCall_no_guard ==
    /\ UNCHANGED notInflux
    /\ UNCHANGED workerHist
    /\ mpc = "idle"
    /\ closes < MaxCloses
    /\ closes' = closes + 1
    /\ closed' = TRUE
    /\ mpc' = "close_flag"
    /\ UNCHANGED <<queue, unfinished, flush_now, batch, flush_retries,
                   deadlinePassed, wpc, written, flushes, posted, dropped,
                   flushSnap, flushReturns, undelivered>>

\* InfluxClient.close, up to self._closed.set()
CloseCall ==
    /\ UNCHANGED notInflux
    /\ UNCHANGED workerHist
    /\ mpc = "idle"
    /\ closes < MaxCloses
    /\ closes' = closes + 1
    /\ IF closed
       THEN UNCHANGED <<closed, mpc>>
       ELSE /\ closed' = TRUE
            /\ mpc' = "close_flag"
    /\ UNCHANGED <<queue, unfinished, flush_now, batch, flush_retries,
                   deadlinePassed, wpc, written, flushes, posted, dropped,
                   flushSnap, flushReturns, undelivered>>

\* close: self._flush_now.set()
CloseFlag ==
    /\ UNCHANGED notInflux
    /\ UNCHANGED workerHist
    /\ mpc = "close_flag"
    /\ flush_now' = TRUE
    /\ mpc' = "close_put"
    /\ UNCHANGED <<queue, unfinished, closed, batch, flush_retries,
                   deadlinePassed, wpc, written, flushes, closes, posted,
                   dropped, flushSnap, flushReturns, undelivered>>

\* close: self._queue.put(self._WAKE)
ClosePut ==
    /\ UNCHANGED notInflux
    /\ UNCHANGED workerHist
    /\ mpc = "close_put"
    /\ queue' = Append(queue, WAKE)
    /\ unfinished' = unfinished + 1
    /\ mpc' = "close_join"
    /\ UNCHANGED <<closed, flush_now, batch, flush_retries, deadlinePassed,
                   wpc, written, flushes, closes, posted, dropped, flushSnap,
                   flushReturns, undelivered>>

\* close: self._queue.join() returns
CloseJoin ==
    /\ UNCHANGED notInflux
    /\ UNCHANGED workerHist
    /\ mpc = "close_join"
    /\ unfinished = 0
    /\ mpc' = "close_worker_join"
    /\ UNCHANGED <<queue, unfinished, closed, flush_now, batch, flush_retries,
                   deadlinePassed, wpc, written, flushes, closes, posted,
                   dropped, flushSnap, flushReturns, undelivered>>

\* close: self._worker.join(timeout=...) returns, the worker stopped or not,
\* and close returns
CloseWorkerJoin ==
    /\ UNCHANGED notInflux
    /\ UNCHANGED workerHist
    /\ mpc = "close_worker_join"
    /\ mpc' = "idle"
    /\ UNCHANGED <<queue, unfinished, closed, flush_now, batch, flush_retries,
                   deadlinePassed, wpc, written, flushes, closes, posted,
                   dropped, flushSnap, flushReturns, undelivered>>

Caller ==
    \/ Write
    \/ FlushCall
    \/ FlushPut
    \/ FlushJoin
    \/ FlushSpin
    \/ CloseCall
    \/ CloseFlag
    \/ ClosePut
    \/ CloseJoin
    \/ CloseWorkerJoin

\* ---- the worker thread: _run_flush_worker ----

\* what no step of the worker changes
callerVars == <<mpc, written, flushes, closes, flushSnap, flushReturns,
                undelivered, notInflux>>

\* the while condition
WorkerLoop ==
    /\ wpc = "loop"
    /\ wpc' = IF ~closed \/ queue # <<>> \/ batch # <<>>
              THEN "get" ELSE "exited"
    /\ UNCHANGED <<queue, unfinished, closed, flush_now, batch, flush_retries,
                   deadlinePassed, posted, dropped>>
    /\ UNCHANGED callerVars
    /\ UNCHANGED workerHist

\* self._queue.get(timeout=timeout): an item, or queue.Empty at the deadline
WorkerGet ==
    /\ wpc = "get"
    /\ IF queue # <<>>
       THEN /\ queue' = Tail(queue)
            /\ IF Head(queue) = WAKE
               THEN /\ wpc' = "wake"
                    /\ UNCHANGED <<batch, batchFailures>>
               ELSE /\ wpc' = "check"
                    /\ batch' = Append(batch, Head(queue))
                    /\ batchFailures' = Append(batchFailures, 0)
       ELSE /\ deadlinePassed
            /\ wpc' = "check"
            /\ UNCHANGED <<queue, batch, batchFailures>>
    /\ UNCHANGED <<unfinished, closed, flush_now, flush_retries,
                   deadlinePassed, posted, dropped>>
    /\ UNCHANGED callerVars
    /\ UNCHANGED <<attempts, backoffs, postedSeq>>

\* task_done() for the wake marker
WorkerWakeDone ==
    /\ wpc = "wake"
    /\ unfinished' = unfinished - 1
    /\ wpc' = "check"
    /\ UNCHANGED <<queue, closed, flush_now, batch, flush_retries,
                   deadlinePassed, posted, dropped>>
    /\ UNCHANGED callerVars
    /\ UNCHANGED workerHist

\* `if not batch:` and the test of the flush request under it
WorkerCheck ==
    /\ wpc = "check"
    /\ IF batch = <<>>
       THEN IF flush_now /\ queue = <<>>
            THEN /\ wpc' = "clear"
                 /\ UNCHANGED deadlinePassed
            ELSE /\ wpc' = "loop"
                 /\ deadlinePassed' = FALSE
       ELSE /\ wpc' = "decide"
            /\ UNCHANGED deadlinePassed
    /\ UNCHANGED <<queue, unfinished, closed, flush_now, batch, flush_retries,
                   posted, dropped>>
    /\ UNCHANGED callerVars
    /\ UNCHANGED workerHist

\* self._flush_now.clear(), a new deadline, and continue
WorkerClear ==
    /\ wpc = "clear"
    /\ flush_now' = FALSE
    /\ deadlinePassed' = FALSE
    /\ wpc' = "loop"
    /\ UNCHANGED <<queue, unfinished, closed, batch, flush_retries, posted,
                   dropped>>
    /\ UNCHANGED callerVars
    /\ UNCHANGED workerHist

\* a flush test that ignores the deadline
should_flush_no_deadline ==
    \/ Len(batch) >= batch_size
    \/ (flush_now /\ queue = <<>>)

should_flush ==
    \/ Len(batch) >= batch_size
    \/ deadlinePassed
    \/ (flush_now /\ queue = <<>>)

WorkerDecide ==
    /\ wpc = "decide"
    /\ wpc' = IF should_flush THEN "post" ELSE "loop"
    /\ UNCHANGED <<queue, unfinished, closed, flush_now, batch, flush_retries,
                   deadlinePassed, posted, dropped>>
    /\ UNCHANGED callerVars
    /\ UNCHANGED workerHist

\* a worker that gives a batch up one attempt early
WorkerPost_drops_early ==
    /\ wpc = "post"
    /\ attempts' = attempts + 1
    /\ \E ok \in BOOLEAN :
          IF ok
          THEN /\ wpc' = "posted"
               /\ posted' = posted \cup Range(batch)
               /\ postedSeq' = postedSeq \o batch
               /\ UNCHANGED <<flush_retries, batchFailures>>
          ELSE /\ flush_retries' = flush_retries + 1
               /\ wpc' = IF flush_retries + 1 >= max_flush_retries
                         THEN "drop" ELSE "backoff"
               /\ batchFailures' = [i \in 1..Len(batch) |->
                                        batchFailures[i] + 1]
               /\ UNCHANGED <<posted, postedSeq>>
    /\ UNCHANGED <<queue, unfinished, closed, flush_now, batch,
                   deadlinePassed, dropped, backoffs>>
    /\ UNCHANGED callerVars

\* self._post_lines(batch) and, when it fails, the count of the retry
WorkerPost ==
    /\ wpc = "post"
    /\ attempts' = attempts + 1
    /\ \E ok \in BOOLEAN :
          IF ok
          THEN /\ wpc' = "posted"
               /\ posted' = posted \cup Range(batch)
               /\ postedSeq' = postedSeq \o batch
               /\ UNCHANGED <<flush_retries, batchFailures>>
          ELSE /\ flush_retries' = flush_retries + 1
               /\ wpc' = IF flush_retries + 1 > max_flush_retries
                         THEN "drop" ELSE "backoff"
               /\ batchFailures' = [i \in 1..Len(batch) |->
                                        batchFailures[i] + 1]
               /\ UNCHANGED <<posted, postedSeq>>
    /\ UNCHANGED <<queue, unfinished, closed, flush_now, batch,
                   deadlinePassed, dropped, backoffs>>
    /\ UNCHANGED callerVars

\* a worker that keeps the batch after a successful POST
WorkerPosted_keeps_batch ==
    /\ wpc = "posted"
    /\ unfinished' = unfinished - Len(batch)
    /\ flush_retries' = 0
    /\ deadlinePassed' = FALSE
    /\ wpc' = "after"
    /\ attempts' = 0
    /\ backoffs' = <<>>
    /\ UNCHANGED <<queue, closed, flush_now, batch, posted, dropped,
                   postedSeq, batchFailures>>
    /\ UNCHANGED callerVars

\* after a successful POST: task_done() per line, the batch is emptied
WorkerPosted ==
    /\ wpc = "posted"
    /\ unfinished' = unfinished - Len(batch)
    /\ batch' = <<>>
    /\ flush_retries' = 0
    /\ deadlinePassed' = FALSE
    /\ wpc' = "after"
    /\ attempts' = 0
    /\ backoffs' = <<>>
    /\ batchFailures' = <<>>
    /\ UNCHANGED <<queue, closed, flush_now, posted, dropped, postedSeq>>
    /\ UNCHANGED callerVars

\* a drop that empties the batch without task_done() for its lines
WorkerDrop_keeps_tasks ==
    /\ wpc = "drop"
    /\ dropped' = dropped \cup Range(batch)
    /\ batch' = <<>>
    /\ flush_retries' = 0
    /\ deadlinePassed' = FALSE
    /\ wpc' = "after"
    /\ attempts' = 0
    /\ backoffs' = <<>>
    /\ batchFailures' = <<>>
    /\ UNCHANGED <<queue, unfinished, closed, flush_now, posted, postedSeq>>
    /\ UNCHANGED callerVars

\* the retries are used up: task_done() per line, the batch is dropped
WorkerDrop ==
    /\ wpc = "drop"
    /\ dropped' = dropped \cup Range(batch)
    /\ unfinished' = unfinished - Len(batch)
    /\ batch' = <<>>
    /\ flush_retries' = 0
    /\ deadlinePassed' = FALSE
    /\ wpc' = "after"
    /\ attempts' = 0
    /\ backoffs' = <<>>
    /\ batchFailures' = <<>>
    /\ UNCHANGED <<queue, closed, flush_now, posted, postedSeq>>
    /\ UNCHANGED callerVars

\* the test of the flush request after a batch was posted or dropped
WorkerAfter ==
    /\ wpc = "after"
    /\ wpc' = IF flush_now /\ queue = <<>> THEN "clear_after" ELSE "loop"
    /\ UNCHANGED <<queue, unfinished, closed, flush_now, batch, flush_retries,
                   deadlinePassed, posted, dropped>>
    /\ UNCHANGED callerVars
    /\ UNCHANGED workerHist

WorkerClearAfter ==
    /\ wpc = "clear_after"
    /\ flush_now' = FALSE
    /\ wpc' = "loop"
    /\ UNCHANGED <<queue, unfinished, closed, batch, flush_retries,
                   deadlinePassed, posted, dropped>>
    /\ UNCHANGED callerVars
    /\ UNCHANGED workerHist

\* min(0.5 * (2 ** (flush_retries - 1)), 2.0), in tenths of a second
backoff_seconds(retries) ==
    IF BackoffBase * 2 ^ (retries - 1) < BackoffCap
    THEN BackoffBase * 2 ^ (retries - 1)
    ELSE BackoffCap

\* time.sleep(backoff_seconds); self._queue.put(self._WAKE)
WorkerBackoff ==
    /\ wpc = "backoff"
    /\ backoffs' = Append(backoffs, backoff_seconds(flush_retries))
    /\ queue' = Append(queue, WAKE)
    /\ unfinished' = unfinished + 1
    /\ wpc' = "loop"
    /\ UNCHANGED <<closed, flush_now, batch, flush_retries, deadlinePassed,
                   posted, dropped, attempts, postedSeq, batchFailures>>
    /\ UNCHANGED callerVars

Worker ==
    \/ WorkerLoop
    \/ WorkerGet
    \/ WorkerWakeDone
    \/ WorkerCheck
    \/ WorkerClear
    \/ WorkerDecide
    \/ WorkerPost
    \/ WorkerPosted
    \/ WorkerDrop
    \/ WorkerAfter
    \/ WorkerClearAfter
    \/ WorkerBackoff

\* the clock reaches the worker's deadline
Tick ==
    /\ wpc # "exited"
    /\ ~deadlinePassed
    /\ deadlinePassed' = TRUE
    /\ UNCHANGED <<queue, unfinished, closed, flush_now, batch, flush_retries,
                   wpc, posted, dropped>>
    /\ UNCHANGED callerVars
    /\ UNCHANGED workerHist

InfluxNext == Caller \/ Worker \/ Tick

----------------------------------------------------------------------------
\* CandleChannel (source/okx.py) consumed by the live loop (trade.py)

\* entries of the exchange's feed
MaxFeed == 3

\* connections that may end
MaxDrops == 1

\* entries in one websocket message
MaxEntries == 1

\* await asyncio.sleep(3)
ReconnectDelay == 3

\* one bar, in milliseconds of exchange time
BarMs == 60000

_SENTINEL == [kind |-> "sentinel"]

\* what the exchange sends for the subscription: each bar while it forms
\* (confirm flag "0") and once it is closed (confirm flag "1")
Feed ==
    [i \in 1..MaxFeed |->
        [ts |-> ((i + 1) \div 2) * BarMs,
         flag |-> IF i % 2 = 1 THEN "0" ELSE "1"]]

\* Candle(timestamp=..., confirm=entry[8] == "1") of one data entry
Candle(entry) ==
    [kind |-> "candle",
     timestamp |-> entry.ts \div 1000,
     confirm |-> (entry.flag = "1")]

\* StrategyCandle(timestamp=candle.timestamp, ...) built by trade.run
StrategyCandle(candle) == [timestamp |-> candle.timestamp]

NoCandle == [kind |-> "none"]

LiveVarsInit ==
    /\ chQueue = <<>>
    /\ stopped = FALSE
    /\ rpc = "top"
    /\ msgLeft = <<>>
    /\ feedPos = 0
    /\ subscribed = FALSE
    /\ drops = 0
    /\ cpc = "iter"
    /\ cur = NoCandle
    /\ runDone = FALSE
    /\ kpc = "idle"
    /\ delivered = <<>>
    /\ acked = <<>>
    /\ raisedStop = FALSE
    /\ slept = <<>>
    /\ dropMark = 0

\* what no step of the websocket thread changes
readerFrame == <<stopped, cpc, cur, runDone, kpc, delivered, acked,
                 raisedStop, notLive>>

\* what no step of the consuming thread changes
consumerFrame == <<rpc, msgLeft, feedPos, subscribed, drops, kpc, slept,
                   dropMark, notLive>>

\* ---- the websocket thread: _ws_loop ----

\* `while not self._stopped.is_set():`
ReaderTop ==
    /\ rpc = "top"
    /\ rpc' = IF stopped THEN "final" ELSE "connect"
    /\ UNCHANGED <<chQueue, msgLeft, feedPos, subscribed, drops, slept,
                   dropMark>>
    /\ UNCHANGED readerFrame

\* websockets.connect, the subscribe message and its answer
ReaderConnect ==
    /\ rpc = "connect"
    /\ \E answer \in {"subscribed", "closed_or_timeout", "error"} :
          \/ /\ answer = "subscribed"
             /\ rpc' = "recv"
             /\ subscribed' = TRUE
             /\ UNCHANGED <<drops, dropMark>>
          \/ /\ answer = "closed_or_timeout"
             /\ drops < MaxDrops
             /\ rpc' = "except"
             /\ drops' = drops + 1
             /\ dropMark' = Len(delivered)
             /\ UNCHANGED subscribed
          \/ /\ answer = "error"
             /\ rpc' = "dead"
             /\ UNCHANGED <<subscribed, drops, dropMark>>
    /\ UNCHANGED <<chQueue, msgLeft, feedPos, slept>>
    /\ UNCHANGED readerFrame

\* the entries Feed[from + 1 .. from + n], as far as the feed goes
Entries(from, n) ==
    [i \in 1..(IF from + n <= Len(Feed) THEN n ELSE Len(Feed) - from) |->
        Feed[from + i]]

\* `async for raw in ws:` yields a message, up to the test of "data"
ReaderRecv ==
    /\ rpc = "recv"
    /\ IF stopped
       THEN /\ rpc' = "returned"
            /\ UNCHANGED <<msgLeft, feedPos, subscribed>>
       ELSE \E from \in {feedPos} \cup
                        (IF subscribed /\ feedPos > 0 THEN {feedPos - 1} ELSE {}) :
            \E n \in 0..MaxEntries :
               /\ msgLeft' = Entries(from, n)
               /\ feedPos' = IF from + Len(msgLeft') > feedPos
                             THEN from + Len(msgLeft') ELSE feedPos
               /\ subscribed' = FALSE
               /\ rpc' = IF msgLeft' = <<>> THEN "recv" ELSE "put"
    /\ UNCHANGED <<chQueue, drops, slept, dropMark>>
    /\ UNCHANGED readerFrame

\* self._queue.put(candle) for one entry of msg["data"]
ReaderPut ==
    /\ rpc = "put"
    /\ chQueue' = Append(chQueue, Candle(Head(msgLeft)))
    /\ msgLeft' = Tail(msgLeft)
    /\ rpc' = IF Tail(msgLeft) = <<>> THEN "recv" ELSE "put"
    /\ UNCHANGED <<feedPos, subscribed, drops, slept, dropMark>>
    /\ UNCHANGED readerFrame

\* the connection ends with websockets.ConnectionClosed or TimeoutError
ReaderDisconnect ==
    /\ rpc = "recv"
    /\ drops < MaxDrops
    /\ drops' = drops + 1
    /\ dropMark' = Len(delivered)
    /\ rpc' = "except"
    /\ UNCHANGED <<chQueue, msgLeft, feedPos, subscribed, slept>>
    /\ UNCHANGED readerFrame

\* the connection is closed cleanly: `async for` ends without an exception
ReaderIterEnds ==
    /\ rpc = "recv"
    /\ drops < MaxDrops
    /\ drops' = drops + 1
    /\ dropMark' = Len(delivered)
    /\ rpc' = "top"
    /\ UNCHANGED <<chQueue, msgLeft, feedPos, subscribed, slept>>
    /\ UNCHANGED readerFrame

\* an except clause that ends the stream instead of reconnecting
ReaderExcept_gives_up ==
    /\ rpc = "except"
    /\ rpc' = "final"
    /\ UNCHANGED <<chQueue, msgLeft, feedPos, subscribed, drops, slept,
                   dropMark>>
    /\ UNCHANGED readerFrame

\* `except (websockets.ConnectionClosed, TimeoutError):` and its test
ReaderExcept ==
    /\ rpc = "except"
    /\ rpc' = IF stopped THEN "top" ELSE "sleep"
    /\ UNCHANGED <<chQueue, msgLeft, feedPos, subscribed, drops, slept,
                   dropMark>>
    /\ UNCHANGED readerFrame

\* await asyncio.sleep(3)
ReaderSleep ==
    /\ rpc = "sleep"
    /\ slept' = Append(slept, ReconnectDelay)
    /\ rpc' = "top"
    /\ UNCHANGED <<chQueue, msgLeft, feedPos, subscribed, drops, dropMark>>
    /\ UNCHANGED readerFrame

\* the loop is left: self._queue.put(_SENTINEL)
ReaderFinal ==
    /\ rpc = "final"
    /\ chQueue' = Append(chQueue, _SENTINEL)
    /\ rpc' = "done"
    /\ UNCHANGED <<msgLeft, feedPos, subscribed, drops, slept, dropMark>>
    /\ UNCHANGED readerFrame

Reader ==
    \/ ReaderTop
    \/ ReaderConnect
    \/ ReaderRecv
    \/ ReaderPut
    \/ ReaderDisconnect
    \/ ReaderIterEnds
    \/ ReaderExcept
    \/ ReaderSleep
    \/ ReaderFinal

\* ---- the consuming thread: trade.run and CandleChannel.__next__ ----

\* `for candle in channel:` calls __next__
ConsumerNext ==
    /\ cpc = "iter"
    /\ cpc' = "get"
    /\ raisedStop' = FALSE
    /\ UNCHANGED <<chQueue, stopped, cur, runDone, delivered, acked>>
    /\ UNCHANGED consumerFrame

\* __next__: self._queue.get(timeout=1) returns an item
ConsumerGet ==
    /\ cpc = "get"
    /\ chQueue # <<>>
    /\ chQueue' = Tail(chQueue)
    /\ IF Head(chQueue) = _SENTINEL
       THEN /\ raisedStop' = TRUE
            /\ cpc' = IF runDone THEN "returned" ELSE "finally"
            /\ UNCHANGED <<cur, delivered>>
       ELSE /\ cur' = Head(chQueue)
            /\ delivered' = Append(delivered, Head(chQueue))
            /\ cpc' = IF runDone THEN "returned" ELSE "body"
            /\ UNCHANGED raisedStop
    /\ UNCHANGED <<stopped, runDone, acked>>
    /\ UNCHANGED consumerFrame

\* a __next__ that goes on waiting whatever self._stopped says
ConsumerTimeout_ignores_stopped ==
    /\ cpc = "get"
    /\ chQueue = <<>>
    /\ stopped
    /\ UNCHANGED <<cpc, raisedStop>>
    /\ UNCHANGED <<chQueue, stopped, cur, runDone, delivered, acked>>
    /\ UNCHANGED consumerFrame

\* __next__: queue.Empty with self._stopped set raises StopIteration
\* (with it unset the call goes on waiting)
ConsumerTimeout ==
    /\ cpc = "get"
    /\ chQueue = <<>>
    /\ stopped
    /\ raisedStop' = TRUE
    /\ cpc' = IF runDone THEN "returned" ELSE "finally"
    /\ UNCHANGED <<chQueue, stopped, cur, runDone, delivered, acked>>
    /\ UNCHANGED consumerFrame

\* a loop body that passes every candle on
ConsumerBody_acks_all ==
    /\ cpc = "body"
    /\ acked' = Append(acked, StrategyCandle(cur))
    /\ \E raises \in BOOLEAN : cpc' = IF raises THEN "finally" ELSE "iter"
    /\ UNCHANGED <<chQueue, stopped, cur, runDone, delivered, raisedStop>>
    /\ UNCHANGED consumerFrame

\* the loop body: `if not candle.confirm: continue`, else executor.ack,
\* which returns or raises
ConsumerBody ==
    /\ cpc = "body"
    /\ IF ~cur.confirm
       THEN /\ cpc' = "iter"
            /\ UNCHANGED acked
       ELSE /\ acked' = Append(acked, StrategyCandle(cur))
            /\ \E raises \in BOOLEAN :
                  cpc' = IF raises THEN "finally" ELSE "iter"
    /\ UNCHANGED <<chQueue, stopped, cur, runDone, delivered, raisedStop>>
    /\ UNCHANGED consumerFrame

\* KeyboardInterrupt in the consuming thread
ConsumerInterrupt ==
    /\ cpc \in {"iter", "get", "body"}
    /\ ~runDone
    /\ cpc' = "finally"
    /\ UNCHANGED <<chQueue, stopped, cur, runDone, delivered, acked,
                   raisedStop>>
    /\ UNCHANGED consumerFrame

\* `finally: channel.close()`: self._stopped.set()
ConsumerFinally ==
    /\ cpc = "finally"
    /\ stopped' = TRUE
    /\ cpc' = "close_put"
    /\ UNCHANGED <<chQueue, cur, runDone, delivered, acked, raisedStop>>
    /\ UNCHANGED consumerFrame

\* close: self._queue.put(_SENTINEL), and trade.run is over
ConsumerClosePut ==
    /\ cpc = "close_put"
    /\ chQueue' = Append(chQueue, _SENTINEL)
    /\ runDone' = TRUE
    /\ cpc' = "returned"
    /\ UNCHANGED <<stopped, cur, delivered, acked, raisedStop>>
    /\ UNCHANGED consumerFrame

\* a later call of __next__ on the closed channel
ConsumerNextLater ==
    /\ cpc = "returned"
    /\ cpc' = "get"
    /\ raisedStop' = FALSE
    /\ UNCHANGED <<chQueue, stopped, cur, runDone, delivered, acked>>
    /\ UNCHANGED consumerFrame

Consumer ==
    \/ ConsumerNext
    \/ ConsumerGet
    \/ ConsumerTimeout
    \/ ConsumerBody
    \/ ConsumerInterrupt
    \/ ConsumerFinally
    \/ ConsumerClosePut
    \/ ConsumerNextLater

\* ---- CandleChannel.close called by another thread ----

\* close: self._stopped.set()
CloserSet ==
    /\ kpc = "idle"
    /\ stopped' = TRUE
    /\ kpc' = "put"
    /\ UNCHANGED <<chQueue, rpc, msgLeft, feedPos, subscribed, drops, cpc,
                   cur, runDone, delivered, acked, raisedStop, slept,
                   dropMark>>
    /\ UNCHANGED notLive

\* close: self._queue.put(_SENTINEL)
CloserPut ==
    /\ kpc = "put"
    /\ chQueue' = Append(chQueue, _SENTINEL)
    /\ kpc' = "done"
    /\ UNCHANGED <<stopped, rpc, msgLeft, feedPos, subscribed, drops, cpc,
                   cur, runDone, delivered, acked, raisedStop, slept,
                   dropMark>>
    /\ UNCHANGED notLive

Closer == CloserSet \/ CloserPut

LiveNext == Reader \/ Consumer \/ Closer

----------------------------------------------------------------------------
\* The batch backtest: execution/backtester.py with the overlays
\* strategy/stoploss.py, strategy/equityguard.py and entry/drawdown.py.
\* Floats are exact fractions [n, d] in lowest terms with d > 0.

\* bars a run is given
MaxBtBars == 3

\* close prices of the bars
Closes == {4, 5, 6}

\* the base strategy's position for a bar
Signals == {SHORT, FLAT, LONG}

\* evaluate(..., capital=1000.0)
capital == 1000

\* stoploss.Strategy(percent=10)
percent == 10

\* equityguard.Strategy(max_dd_pct=5.0, resume_pct=2.0)
max_dd_pct == 5

resume_pct == 2

\* DrawdownPositionSize(window=...)
window == 2

\* the series of the worked example: close prices, always long
ExampleCloses == <<100, 105, 95, 90, 110>>

Abs(x) == IF x < 0 THEN 0 - x ELSE x

RECURSIVE GCD(_, _)
GCD(a, b) == IF b = 0 THEN a ELSE GCD(b, a % b)

\* the fraction n / d in lowest terms
Rat(n, d) ==
    LET g == GCD(Abs(n), Abs(d))
        sgn == IF d < 0 THEN 0 - 1 ELSE 1
    IN  [n |-> (sgn * n) \div g, d |-> (sgn * d) \div g]

RInt(k) == [n |-> k, d |-> 1]

RAdd(a, b) == Rat(a.n * b.d + b.n * a.d, a.d * b.d)

RSub(a, b) == Rat(a.n * b.d - b.n * a.d, a.d * b.d)

RMul(a, b) == Rat(a.n * b.n, a.d * b.d)

RDiv(a, b) == Rat(a.n * b.d, a.d * b.n)

RLe(a, b) == a.n * b.d <= b.n * a.d

RMax(a, b) == IF RLe(a, b) THEN b ELSE a

\* a constructor that keeps the thresholds in the order of the dict
SortedDescending_as_given(items) == items

\* sorted(thresh_hold.items(), reverse=True): by key, highest first (the
\* keys of a dict differ, so the values are never compared)
RECURSIVE SortedDescending(_)
SortedDescending(items) ==
    IF items = <<>> THEN <<>>
    ELSE LET top == CHOOSE i \in 1..Len(items) :
                        \A j \in 1..Len(items) :
                            items[j].level <= items[i].level
             rest == [j \in 1..(Len(items) - 1) |->
                         IF j < top THEN items[j] ELSE items[j + 1]]
         IN  <<items[top]>> \o SortedDescending(rest)

\* DrawdownPositionSize(thresh_hold={8: 0.5, 20: 0}).thresh_hold: drawdown
\* level (%) and scale, highest level first after __init__
thresh_hold ==
    SortedDescending(<<[level |-> 8, scale |-> Rat(1, 2)],
                       [level |-> 20, scale |-> RInt(0)]>>)

\* (closes[i] - closes[i - 1]) / closes[i - 1], and 0.0 for a zero close
BarReturn(closeSeq, i) ==
    IF closeSeq[i - 1] # 0
    THEN Rat(closeSeq[i] - closeSeq[i - 1], closeSeq[i - 1])
    ELSE RInt(0)

\* ---- strategy/stoploss.py ----

\* a step that stays stopped for one bar only, whatever the base says
StopLossStep_one_bar(i, closeSeq, positions, st) ==
    LET original_pos == positions[i]
        price == closeSeq[i]
    IN  IF ~st.stopped_out /\ original_pos # st.current_pos
        THEN [positions |-> positions,
              st |-> [st EXCEPT !.entry_price = IF original_pos # RInt(0)
                                                THEN price ELSE None,
                                !.current_pos = original_pos]]
        ELSE
        LET s1 == IF st.stopped_out
                  THEN [st EXCEPT !.stopped_out = FALSE,
                                  !.entry_price = price,
                                  !.current_pos = original_pos]
                  ELSE st
            loss_pct == IF s1.current_pos = RInt(1)
                        THEN Rat(s1.entry_price - price, s1.entry_price)
                        ELSE Rat(price - s1.entry_price, s1.entry_price)
            hit == /\ s1.current_pos # RInt(0)
                   /\ s1.entry_price # None
                   /\ RLe(Rat(percent, 100), loss_pct)
        IN  IF hit
            THEN [positions |-> [positions EXCEPT ![i] = RInt(0)],
                  st |-> [s1 EXCEPT !.stopped_out = TRUE,
                                    !.stopped_out_direction = s1.current_pos,
                                    !.current_pos = RInt(0),
                                    !.entry_price = None]]
            ELSE [positions |-> positions, st |-> s1]

\* one pass of the loop over the bars: bar i, from the state st
StopLossStep(i, closeSeq, positions, st) ==
    LET original_pos == positions[i]
        price == closeSeq[i]
    IN  IF st.stopped_out /\ original_pos = st.stopped_out_direction
        THEN [positions |-> [positions EXCEPT ![i] = RInt(0)], st |-> st]
        ELSE IF ~st.stopped_out /\ original_pos # st.current_pos
        THEN [positions |-> positions,
              st |-> [st EXCEPT !.entry_price = IF original_pos # RInt(0)
                                                THEN price ELSE None,
                                !.current_pos = original_pos]]
        ELSE
        LET s1 == IF st.stopped_out
                  THEN [st EXCEPT !.stopped_out = FALSE,
                                  !.entry_price = price,
                                  !.current_pos = original_pos]
                  ELSE st
            loss_pct == IF s1.current_pos = RInt(1)
                        THEN Rat(s1.entry_price - price, s1.entry_price)
                        ELSE Rat(price - s1.entry_price, s1.entry_price)
            hit == /\ s1.current_pos # RInt(0)
                   /\ s1.entry_price # None
                   /\ RLe(Rat(percent, 100), loss_pct)
        IN  IF hit
            THEN [positions |-> [positions EXCEPT ![i] = RInt(0)],
                  st |-> [s1 EXCEPT !.stopped_out = TRUE,
                                    !.stopped_out_direction = s1.current_pos,
                                    !.current_pos = RInt(0),
                                    !.entry_price = None]]
            ELSE [positions |-> positions, st |-> s1]

RECURSIVE StopLossLoop(_, _, _, _)
StopLossLoop(i, closeSeq, positions, st) ==
    IF i > Len(positions) THEN positions
    ELSE LET done == StopLossStep(i, closeSeq, positions, st)
         IN  StopLossLoop(i + 1, closeSeq, done.positions, done.st)

\* the state before the first bar
StopLossStart ==
    [entry_price |-> None, current_pos |-> RInt(0),
     stopped_out |-> FALSE, stopped_out_direction |-> RInt(0)]

\* stoploss.Strategy.generate_signals
StopLoss(closeSeq, positions) ==
    StopLossLoop(1, closeSeq, positions, StopLossStart)

\* ---- strategy/equityguard.py ----

\* a step that simulates the equity from the guarded positions
EquityGuardStep_own_positions(i, closeSeq, base_positions, out, st) ==
    LET equity == IF i > 1
                  THEN RMul(st.equity,
                            RAdd(RInt(1), RMul(out.position[i - 1],
                                               BarReturn(closeSeq, i))))
                  ELSE st.equity
        peak == RMax(st.peak, equity)
        dd_pct == RMul(RDiv(RSub(equity, peak), peak), RInt(100))
        flat == [position |-> [out.position EXCEPT ![i] = RInt(0)],
                 equity_guard |-> [out.equity_guard EXCEPT ![i] = 0]]
    IN  IF st.paused
        THEN IF RLe(RInt(0 - resume_pct), dd_pct)
             THEN [out |-> out,
                   st |-> [equity |-> equity, peak |-> peak,
                           paused |-> FALSE]]
             ELSE [out |-> flat,
                   st |-> [equity |-> equity, peak |-> peak,
                           paused |-> TRUE]]
        ELSE IF RLe(dd_pct, RInt(0 - max_dd_pct))
             THEN [out |-> flat,
                   st |-> [equity |-> equity, peak |-> peak,
                           paused |-> TRUE]]
             ELSE [out |-> out,
                   st |-> [equity |-> equity, peak |-> peak,
                           paused |-> FALSE]]

\* one pass of the loop over the bars: bar i, from the state st; out is
\* the position column and the equity_guard column so far
EquityGuardStep(i, closeSeq, base_positions, out, st) ==
    LET equity == IF i > 1
                  THEN RMul(st.equity,
                            RAdd(RInt(1), RMul(base_positions[i - 1],
                                               BarReturn(closeSeq, i))))
                  ELSE st.equity
        peak == RMax(st.peak, equity)
        dd_pct == RMul(RDiv(RSub(equity, peak), peak), RInt(100))
        flat == [position |-> [out.position EXCEPT ![i] = RInt(0)],
                 equity_guard |-> [out.equity_guard EXCEPT ![i] = 0]]
    IN  IF st.paused
        THEN IF RLe(RInt(0 - resume_pct), dd_pct)
             THEN [out |-> out,
                   st |-> [equity |-> equity, peak |-> peak,
                           paused |-> FALSE]]
             ELSE [out |-> flat,
                   st |-> [equity |-> equity, peak |-> peak,
                           paused |-> TRUE]]
        ELSE IF RLe(dd_pct, RInt(0 - max_dd_pct))
             THEN [out |-> flat,
                   st |-> [equity |-> equity, peak |-> peak,
                           paused |-> TRUE]]
             ELSE [out |-> out,
                   st |-> [equity |-> equity, peak |-> peak,
                           paused |-> FALSE]]

RECURSIVE EquityGuardLoop(_, _, _, _, _)
EquityGuardLoop(i, closeSeq, base_positions, out, st) ==
    IF i > Len(base_positions) THEN out
    ELSE LET done == EquityGuardStep(i, closeSeq, base_positions, out, st)
         IN  EquityGuardLoop(i + 1, closeSeq, base_positions, done.out,
                             done.st)

\* equityguard.Strategy.generate_signals: the frame it returns
EquityGuardFrame(closeSeq, positions) ==
    EquityGuardLoop(1, closeSeq, positions,
                    [position |-> positions,
                     equity_guard |-> [i \in 1..Len(positions) |-> 1]],
                    [equity |-> RInt(1), peak |-> RInt(1), paused |-> FALSE])

\* the position column of the frame
EquityGuard(closeSeq, positions) ==
    EquityGuardFrame(closeSeq, positions).position

\* ---- entry/drawdown.py ----

RECURSIVE SeqMax(_)
SeqMax(seq) ==
    IF Len(seq) = 1 THEN seq[1] ELSE RMax(seq[1], SeqMax(Tail(seq)))

\* a deque without maxlen: nothing expires
DequeAppend_keeps_all(history, x) == Append(history, x)

\* deque(maxlen=window).append
DequeAppend(history, x) ==
    IF Len(history) < window THEN Append(history, x)
    ELSE Append(Tail(history), x)

\* a scan whose test is the wrong way round: drawdown_pct <= dd_level
RECURSIVE ScaleFor_reversed_test(_, _)
ScaleFor_reversed_test(levels, drawdown_pct) ==
    IF levels = <<>> THEN RInt(1)
    ELSE IF RLe(drawdown_pct, RInt(Head(levels).level))
         THEN Head(levels).scale
         ELSE ScaleFor_reversed_test(Tail(levels), drawdown_pct)

\* the scale of the first, that is highest, threshold that is breached
RECURSIVE ScaleFor(_, _)
ScaleFor(levels, drawdown_pct) ==
    IF levels = <<>> THEN RInt(1)
    ELSE IF RLe(RInt(Head(levels).level), drawdown_pct)
         THEN Head(levels).scale
         ELSE ScaleFor(Tail(levels), drawdown_pct)

\* a step that stores the scale as the position instead of multiplying
DrawdownStep_stores_scale(i, closeSeq, positions, st) ==
    LET equity == IF i > 1
                  THEN RMul(st.equity,
                            RAdd(RInt(1), RMul(positions[i - 1],
                                               BarReturn(closeSeq, i))))
                  ELSE st.equity
        equity_history == IF i > 1 THEN DequeAppend(st.equity_history, equity)
                          ELSE st.equity_history
        peak == IF i > 1 THEN SeqMax(equity_history) ELSE st.peak
        drawdown_pct == IF i > 1
                        THEN RMul(RDiv(RSub(peak, equity), peak), RInt(100))
                        ELSE st.drawdown_pct
    IN  [positions |->
             [positions EXCEPT
                 ![i] = ScaleFor(thresh_hold, drawdown_pct)],
         st |-> [equity |-> equity, equity_history |-> equity_history,
                 peak |-> peak, drawdown_pct |-> drawdown_pct]]

\* one pass of the loop over the bars: bar i, from the state st
DrawdownStep(i, closeSeq, positions, st) ==
    LET equity == IF i > 1
                  THEN RMul(st.equity,
                            RAdd(RInt(1), RMul(positions[i - 1],
                                               BarReturn(closeSeq, i))))
                  ELSE st.equity
        equity_history == IF i > 1 THEN DequeAppend(st.equity_history, equity)
                          ELSE st.equity_history
        peak == IF i > 1 THEN SeqMax(equity_history) ELSE st.peak
        drawdown_pct == IF i > 1
                        THEN RMul(RDiv(RSub(peak, equity), peak), RInt(100))
                        ELSE st.drawdown_pct
    IN  [positions |->
             [positions EXCEPT
                 ![i] = RMul(positions[i], ScaleFor(thresh_hold, drawdown_pct))],
         st |-> [equity |-> equity, equity_history |-> equity_history,
                 peak |-> peak, drawdown_pct |-> drawdown_pct]]

RECURSIVE DrawdownLoop(_, _, _, _)
DrawdownLoop(i, closeSeq, positions, st) ==
    IF i > Len(positions) THEN positions
    ELSE LET done == DrawdownStep(i, closeSeq, positions, st)
         IN  DrawdownLoop(i + 1, closeSeq, done.positions, done.st)

\* the state before the first bar
DrawdownStart ==
    [equity |-> RInt(1), equity_history |-> <<RInt(1)>>, peak |-> RInt(1),
     drawdown_pct |-> RInt(0)]

\* DrawdownPositionSize.generate_signals
DrawdownPositionSize(closeSeq, positions) ==
    DrawdownLoop(1, closeSeq, positions, DrawdownStart)

\* ---- execution/backtester.py: evaluate ----

Overlay(name, closeSeq, positions) ==
    CASE name = "stoploss" -> StopLoss(closeSeq, positions)
      [] name = "equityguard" -> EquityGuard(closeSeq, positions)
      [] name = "drawdown" -> DrawdownPositionSize(closeSeq, positions)

\* a loop that runs the overlays from the end of the list to its head
RECURSIVE ApplyOverlays_last_first(_, _, _)
ApplyOverlays_last_first(chain, closeSeq, positions) ==
    IF chain = <<>> THEN positions
    ELSE Overlay(Head(chain), closeSeq,
                 ApplyOverlays_last_first(Tail(chain), closeSeq, positions))

\* `for strategy in strategies[:-1]: signals = strategy.generate_signals(signals)`
RECURSIVE ApplyOverlays(_, _, _)
ApplyOverlays(chain, closeSeq, positions) ==
    IF chain = <<>> THEN positions
    ELSE ApplyOverlays(Tail(chain), closeSeq,
                       Overlay(Head(chain), closeSeq, positions))

\* signals["close"].pct_change().fillna(0)
PctChange(closeSeq) ==
    [i \in 1..Len(closeSeq) |->
        IF i = 1 THEN RInt(0)
        ELSE Rat(closeSeq[i] - closeSeq[i - 1], closeSeq[i - 1])]

\* a shift that pairs each return with the position of its own bar
Shift1_same_bar(positions) == positions

\* signals["position"].shift(1).fillna(0)
Shift1(positions) ==
    [i \in 1..Len(positions) |-> IF i = 1 THEN RInt(0) ELSE positions[i - 1]]

\* (1 + strategy_returns).cumprod()
RECURSIVE CumProd(_, _)
CumProd(strategy_returns, i) ==
    IF i = 0 THEN RInt(1)
    ELSE RMul(CumProd(strategy_returns, i - 1),
              RAdd(RInt(1), strategy_returns[i]))

\* a running maximum that forgets the earlier bars
CumMax_forgets(curve, i) == curve[i]

\* equity_curve.cummax()
RECURSIVE CumMax(_, _)
CumMax(curve, i) ==
    IF i = 1 THEN curve[1] ELSE RMax(CumMax(curve, i - 1), curve[i])

evaluate(ohlc, chain) ==
    LET closeSeq == [i \in 1..Len(ohlc) |-> ohlc[i].close]
        base == [i \in 1..Len(ohlc) |-> RInt(ohlc[i].signal)]
        positions == ApplyOverlays(chain, closeSeq, base)
        close_returns == PctChange(closeSeq)
        shifted == Shift1(positions)
        strategy_returns ==
            [i \in 1..Len(ohlc) |-> RMul(shifted[i], close_returns[i])]
        equity_curve ==
            [i \in 1..Len(ohlc) |->
                RMul(RInt(capital), CumProd(strategy_returns, i))]
        running_max == [i \in 1..Len(ohlc) |-> CumMax(equity_curve, i)]
        drawdown ==
            [i \in 1..Len(ohlc) |-> RSub(equity_curve[i], running_max[i])]
        drawdown_pct ==
            [i \in 1..Len(ohlc) |->
                RMul(RDiv(drawdown[i], running_max[i]), RInt(100))]
    IN  [positions |-> positions,
         equity_curve |-> equity_curve,
         running_max |-> running_max,
         drawdown |-> drawdown,
         drawdown_pct |-> drawdown_pct]

NoResult ==
    [positions |-> <<>>, equity_curve |-> <<>>, running_max |-> <<>>,
     drawdown |-> <<>>, drawdown_pct |-> <<>>]

\* the overlay lists: any of the three overlays, each at most once
Overlays == {"stoploss", "equityguard", "drawdown"}

Chains ==
    {chain \in UNION {[1..k -> Overlays] : k \in 0..Cardinality(Overlays)} :
        \A i \in 1..Len(chain) : \A j \in 1..Len(chain) :
            i # j => chain[i] # chain[j]}

ExampleRow(i) == [close |-> ExampleCloses[i], signal |-> LONG]

BacktestVarsInit ==
    /\ rows = <<>>
    /\ strategies = <<>>
    /\ result = NoResult

\* Backtester.ack: one more bar of a series with closes in Closes
BtAck ==
    /\ Len(rows) < MaxBtBars
    /\ \A i \in 1..Len(rows) : rows[i].close \in Closes
    /\ \E close \in Closes : \E signal \in Signals :
          rows' = Append(rows, [close |-> close, signal |-> signal])
    /\ strategies' = <<>>
    /\ result' = NoResult
    /\ UNCHANGED notBacktest

\* Backtester.ack with the next bar of the worked example
BtAckExample ==
    /\ Len(rows) < Len(ExampleCloses)
    /\ \A i \in 1..Len(rows) : rows[i] = ExampleRow(i)
    /\ rows' = Append(rows, ExampleRow(Len(rows) + 1))
    /\ strategies' = <<>>
    /\ result' = NoResult
    /\ UNCHANGED notBacktest

\* Backtester.result: evaluate() on the bars so far
BtResult ==
    /\ rows # <<>>
    /\ result = NoResult
    /\ \E chain \in Chains :
          /\ strategies' = chain
          /\ result' = evaluate(rows, chain)
    /\ UNCHANGED rows
    /\ UNCHANGED notBacktest

BacktestNext == BtAck \/ BtAckExample \/ BtResult

----------------------------------------------------------------------------
\* The streaming backtester: executor/backtester.py, one ack per candle.
\* The strategy is behind an interface: the action it returns and the
\* equity it reports after confirm are inputs of the step.

\* candles a run is given
MaxAcks == 3

\* candle.timestamp, in whole seconds
StreamTs == {0, 1}

\* candle.open
StreamOpens == {5, 6}

\* candle.close
StreamCloses == {5, 6}

\* what strategy.current_equity() reports, as fractions
StreamEquities == {RInt(0), RInt(1), RInt(2)}

\* a float | None field that is None
NoFloat == [n |-> 0, d |-> 0]

\* an int | None field that is None
NoTs == 0 - 1

\* the float 0.0 of a Sharpe value
SharpeZero ==
    [kind |-> "finite", sign |-> 0, ratio2 |-> RInt(0), annual2 |-> RInt(0)]

\* (mean / np.sqrt(variance)) * np.sqrt(annual): the sign of the value, and
\* its square as the two factors mean^2 / variance and annual.  numpy
\* answers nan or inf, without raising, for a zero divisor and for the root
\* of a negative number.
SharpeValue(mean, variance, annual) ==
    IF variance.n < 0 \/ annual.n < 0 \/ annual.d = 0
        \/ (variance.n = 0 /\ mean.n = 0)
    THEN [kind |-> "nan", sign |-> 0, ratio2 |-> RInt(0),
          annual2 |-> RInt(0)]
    ELSE IF variance.n = 0
    THEN [kind |-> "inf", sign |-> IF mean.n > 0 THEN 1 ELSE 0 - 1,
          ratio2 |-> RInt(0), annual2 |-> RInt(0)]
    ELSE [kind |-> "finite",
          sign |-> IF mean.n > 0 THEN 1 ELSE IF mean.n < 0 THEN 0 - 1 ELSE 0,
          ratio2 |-> RDiv(RMul(mean, mean), variance),
          annual2 |-> annual]

\* Backtester._timestamp_ns: nanoseconds of the candle's timestamp
_timestamp_ns(candle) == candle.timestamp * 1000000000

\* _current_sharpe_ratio without the test of the variance
_current_sharpe_ratio_any_variance(count, mean, m2, first, last) ==
    IF count < 2 THEN SharpeZero
    ELSE
    LET variance == RDiv(m2, RInt(count - 1))
    IN  IF first = NoTs \/ last = NoTs THEN SharpeZero
        ELSE
        LET total_secs == Rat(last - first, 1000000000)
        IN  IF RLe(total_secs, RInt(0)) THEN SharpeZero
            ELSE
            LET bar_secs == RDiv(total_secs, RInt(count))
            IN  IF RLe(bar_secs, RInt(0)) THEN SharpeZero
                ELSE
                LET periods_per_day == RDiv(RInt(86400), bar_secs)
                IN  SharpeValue(mean, variance,
                                RMul(RInt(365), periods_per_day))

\* Backtester._current_sharpe_ratio over the running statistics
_current_sharpe_ratio(count, mean, m2, first, last) ==
    IF count < 2 THEN SharpeZero
    ELSE
    LET variance == RDiv(m2, RInt(count - 1))
    IN  IF RLe(variance, RInt(0)) THEN SharpeZero
        ELSE IF first = NoTs \/ last = NoTs THEN SharpeZero
        ELSE
        LET total_secs == Rat(last - first, 1000000000)
        IN  IF RLe(total_secs, RInt(0)) THEN SharpeZero
            ELSE
            LET bar_secs == RDiv(total_secs, RInt(count))
            IN  IF RLe(bar_secs, RInt(0)) THEN SharpeZero
                ELSE
                LET periods_per_day == RDiv(RInt(86400), bar_secs)
                IN  SharpeValue(mean, variance,
                                RMul(RInt(365), periods_per_day))

\* Backtester.__init__
StreamVarsInit ==
    /\ _equity_history = <<>>
    /\ _drawdown_history = <<>>
    /\ _sharpe_history = <<>>
    /\ _peak_equity = NoFloat
    /\ _prev_equity = NoFloat
    /\ _first_ts_ns = NoTs
    /\ _last_ts_ns = NoTs
    /\ _return_count = 0
    /\ _return_mean = RInt(0)
    /\ _return_m2 = RInt(0)
    /\ streamConfirm = [calls |-> 0, candle |-> None, action |-> None]

\* Backtester.ack(candle): the action goes to strategy.confirm, an Open
\* with the candle's close as its price; then the statistics are updated
\* from the equity the strategy reports
StreamAck ==
    /\ Len(_sharpe_history) < MaxAcks
    /\ \E ts \in StreamTs, open \in StreamOpens, close \in StreamCloses,
          kind \in {"Open", "NoAction"}, equity \in StreamEquities :
        LET candle == [timestamp |-> ts, open |-> open, close |-> close]
            action == IF kind = "Open"
                      THEN [kind |-> kind, price |-> candle.close]
                      ELSE [kind |-> kind, price |-> None]
            timestamp_ns == _timestamp_ns(candle)
            sampled == _prev_equity # NoFloat /\ _prev_equity.n # 0
            bar_ret == RDiv(RSub(equity, _prev_equity), _prev_equity)
            count == _return_count + 1
            delta == RSub(bar_ret, _return_mean)
            mean == RAdd(_return_mean, RDiv(delta, RInt(count)))
            delta2 == RSub(bar_ret, mean)
            peak == IF _peak_equity = NoFloat \/ ~RLe(equity, _peak_equity)
                    THEN equity ELSE _peak_equity
            drawdown == IF peak.n > 0
                        THEN RDiv(RSub(equity, peak), peak) ELSE RInt(0)
        IN  /\ streamConfirm' = [calls |-> streamConfirm.calls + 1,
                                 candle |-> candle, action |-> action]
            /\ _first_ts_ns' = IF _first_ts_ns = NoTs THEN timestamp_ns
                               ELSE _first_ts_ns
            /\ _last_ts_ns' = timestamp_ns
            /\ _return_count' = IF sampled THEN count ELSE _return_count
            /\ _return_mean' = IF sampled THEN mean ELSE _return_mean
            /\ _return_m2' = IF sampled
                             THEN RAdd(_return_m2, RMul(delta, delta2))
                             ELSE _return_m2
            /\ _prev_equity' = equity
            /\ _peak_equity' = peak
            /\ _equity_history' =
                   Append(_equity_history, <<candle.timestamp, equity>>)
            /\ _drawdown_history' =
                   Append(_drawdown_history, <<candle.timestamp, drawdown>>)
            /\ _sharpe_history' =
                   Append(_sharpe_history,
                          <<candle.timestamp,
                            _current_sharpe_ratio(_return_count',
                                                  _return_mean', _return_m2',
                                                  _first_ts_ns',
                                                  _last_ts_ns')>>)
    /\ UNCHANGED notStream

StreamNext == StreamAck

----------------------------------------------------------------------------
\* The live paper trader: execution/future.py, NewContext and evaluate()
\* called without an OKX client (okx=None), so no leverage call and no
\* order is made.  As in the backtest a row carries the base strategy's
\* position for its bar.

\* candles a context is given
MaxPaperBars == 3

\* NewContext(capital=1000.0)
PaperCapital == 1000

\* NewContext.__post_init__ with no preloaded bars
FutureContext ==
    [ohlc |-> <<>>, position |-> 0, entry_price |-> NoFloat,
     entry_scale |-> RInt(1), capital |-> RInt(PaperCapital),
     trades |-> <<>>]

\* what evaluate() leaves behind when it has not run the pipeline
NoSignals == [ran |-> FALSE, position |-> <<>>, returned |-> "None"]

\* signals = strategies[-1].generate_signals(context.ohlc), then
\* `for strategy in strategies[:-1]: signals = strategy.generate_signals(signals)`
future_pipeline(ohlc, chain) ==
    LET closeSeq == [i \in 1..Len(ohlc) |-> ohlc[i].close]
        base == [i \in 1..Len(ohlc) |-> RInt(ohlc[i].signal)]
    IN  ApplyOverlays(chain, closeSeq, base)

\* evaluate(context, strategies) from the pipeline's frame on: the context
\* afterwards and what the call computed
future_evaluate(ctx, signals) ==
    LET raw_position == signals[Len(signals)]
        price == RInt(ctx.ohlc[Len(ctx.ohlc)].close)
        new_direction == IF raw_position.n > 0 THEN 1
                         ELSE IF raw_position.n < 0 THEN 0 - 1 ELSE 0
        position_scale == IF raw_position.n # 0
                          THEN Rat(Abs(raw_position.n), raw_position.d)
                          ELSE RInt(1)
        closing == ctx.position # 0 /\ ctx.entry_price # NoFloat
        move == IF ctx.position = 1 THEN RSub(price, ctx.entry_price)
                ELSE RSub(ctx.entry_price, price)
        pnl == RMul(RMul(RDiv(move, ctx.entry_price), ctx.capital),
                    ctx.entry_scale)
        capital1 == IF closing THEN RAdd(ctx.capital, pnl) ELSE ctx.capital
        trades1 == IF closing
                   THEN Append(ctx.trades,
                               [action |-> "close", side |-> ctx.position,
                                price |-> price, equity |-> capital1])
                   ELSE ctx.trades
        trades2 == IF new_direction # 0
                   THEN Append(trades1,
                               [action |-> "open", side |-> new_direction,
                                price |-> price, equity |-> capital1])
                   ELSE trades1
    IN  IF new_direction = ctx.position
        THEN [context |-> ctx,
              out |-> [ran |-> TRUE, position |-> signals,
                       returned |-> "None"]]
        ELSE [context |->
                  [ohlc |-> ctx.ohlc,
                   position |-> new_direction,
                   entry_price |-> IF new_direction # 0 THEN price
                                   ELSE NoFloat,
                   entry_scale |-> IF new_direction # 0 THEN position_scale
                                   ELSE ctx.entry_scale,
                   capital |-> capital1,
                   trades |-> trades2],
              out |-> [ran |-> TRUE, position |-> signals,
                       returned |-> "Result"]]

PaperVarsInit ==
    /\ paperPc = "new"
    /\ paperStrategies = <<>>
    /\ paperCtx = FutureContext
    /\ paperOut = NoSignals

\* the caller builds its list of overlays, once
PaperStart ==
    /\ paperPc = "new"
    /\ paperStrategies' \in Chains
    /\ paperPc' = "update"
    /\ UNCHANGED <<paperCtx, paperOut>>
    /\ UNCHANGED notPaper

\* NewContext.update(candle) with the candle of a new bar
PaperUpdate ==
    /\ paperPc = "update"
    /\ Len(paperCtx.ohlc) < MaxPaperBars
    /\ \E close \in Closes : \E signal \in Signals :
          paperCtx' = [paperCtx EXCEPT
                          !.ohlc = Append(@, [close |-> close,
                                              signal |-> signal])]
    /\ paperPc' = "evaluate"
    /\ UNCHANGED <<paperStrategies, paperOut>>
    /\ UNCHANGED notPaper

\* evaluate(context, strategies) after the update: nothing with fewer than
\* two bars, else the pipeline and the trade on its last position
PaperEvaluate ==
    /\ paperPc = "evaluate"
    /\ IF Len(paperCtx.ohlc) < 2
       THEN /\ paperOut' = NoSignals
            /\ UNCHANGED paperCtx
       ELSE \E signals \in {future_pipeline(paperCtx.ohlc, paperStrategies)} :
                \E done \in {future_evaluate(paperCtx, signals)} :
                    /\ paperCtx' = done.context
                    /\ paperOut' = done.out
    /\ paperPc' = "update"
    /\ UNCHANGED paperStrategies
    /\ UNCHANGED notPaper

PaperNext == PaperStart \/ PaperUpdate \/ PaperEvaluate

----------------------------------------------------------------------------
\* The threshold table of the drawdown overlay (entry/drawdown.py and
\* strategy/drawdown.py): the constructor sorts what it is given, and each
\* bar takes the scale of the first threshold that is breached.

\* thresholds a table is given
MaxBands == 2

\* the keys (drawdown levels) and values (scales) a table is made of
BandLevels == {0, 2, 6}

BandScales == {RInt(0), Rat(1, 2), RInt(1)}

\* the drawdown of a bar, and the position it comes with
BandDrawdowns == {RInt(0), RInt(1), RInt(2), RInt(4), RInt(6), RInt(7)}

BandPositions == {RInt(SHORT), RInt(LONG)}

\* a dict as the sequence of its items in insertion order: no key twice
Dicts ==
    {items \in UNION {[1..k -> [level : BandLevels, scale : BandScales]] :
                         k \in 0..MaxBands} :
        \A i \in 1..Len(items) : \A j \in 1..Len(items) :
            i # j => items[i].level # items[j].level}

NoBar == [drawdown_pct |-> RInt(0), position |-> RInt(0), scaled |-> RInt(0)]

BandVarsInit ==
    /\ sizeArg = <<>>
    /\ sizeTable = <<>>
    /\ sizeBar = NoBar

\* DrawdownPositionSize.__init__(thresh_hold=items)
BandConstruct ==
    /\ \E items \in Dicts :
          /\ sizeArg' = items
          /\ sizeTable' = SortedDescending(items)
    /\ sizeBar' = NoBar
    /\ UNCHANGED notBand

\* one bar of generate_signals, from the scan of the table on:
\* positions[i] *= scale
BandScale ==
    /\ \E drawdown_pct \in BandDrawdowns : \E position \in BandPositions :
          sizeBar' = [drawdown_pct |-> drawdown_pct,
                      position |-> position,
                      scaled |-> RMul(position,
                                      ScaleFor(sizeTable, drawdown_pct))]
    /\ UNCHANGED <<sizeArg, sizeTable>>
    /\ UNCHANGED notBand

BandNext == BandConstruct \/ BandScale

----------------------------------------------------------------------------
\* The incremental EMA crossover: MACross.step in signal/macross.py, one
\* call per close.

\* closes a signal is stepped through
MaxSteps == 6

\* MACross(short=2, long=3)
short == 2

long == 3

\* the close of a bar
StepCloses == {4, 5, 6}

\* 2.0 / (period + 1)
Alpha(period) == Rat(2, period + 1)

\* sum(self._close_buffer) / period
RECURSIVE SumOf(_)
SumOf(seq) == IF seq = <<>> THEN 0 ELSE Head(seq) + SumOf(Tail(seq))

Mean(seq, period) == Rat(SumOf(seq), period)

\* alpha * close + (1 - alpha) * ema
EmaUpdate(alpha, close, ema) ==
    RAdd(RMul(alpha, RInt(close)), RMul(RSub(RInt(1), alpha), ema))

\* a detection that answers the signal of the bar, 0 without a cross
Crossover_signal_only(diff, prev_diff, position) ==
    IF diff.n > 0 /\ prev_diff.n <= 0 THEN 1
    ELSE IF diff.n < 0 /\ prev_diff.n >= 0 THEN 0 - 1
    ELSE 0

\* the crossover detection: the position after a bar with this diff
Crossover(diff, prev_diff, position) ==
    IF diff.n > 0 /\ prev_diff.n <= 0 THEN 1
    ELSE IF diff.n < 0 /\ prev_diff.n >= 0 THEN 0 - 1
    ELSE position

\* MACross.__init__
CrossVarsInit ==
    /\ _ema_s = RInt(0)
    /\ _ema_l = RInt(0)
    /\ _prev_diff = RInt(0)
    /\ _position = 0
    /\ _bar_count = 0
    /\ _close_buffer = <<>>
    /\ stepIn = <<>>
    /\ stepOut = <<>>

\* MACross.step(close)
MACrossStep ==
    /\ _bar_count < MaxSteps
    /\ \E close \in StepCloses :
        LET bar_count == _bar_count + 1
            close_buffer == IF bar_count <= long
                            THEN Append(_close_buffer, close)
                            ELSE _close_buffer
            ema_s == IF bar_count < short THEN _ema_s
                     ELSE IF bar_count = short
                     THEN Mean(close_buffer, short)
                     ELSE EmaUpdate(Alpha(short), close, _ema_s)
            ema_l == IF bar_count < long THEN _ema_l
                     ELSE IF bar_count = long
                     THEN Mean(close_buffer, long)
                     ELSE EmaUpdate(Alpha(long), close, _ema_l)
            diff == RSub(ema_s, ema_l)
        IN  /\ _bar_count' = bar_count
            /\ _ema_s' = ema_s
            /\ _ema_l' = ema_l
            /\ stepIn' = Append(stepIn, close)
            /\ IF bar_count < long
               THEN /\ _close_buffer' = close_buffer
                    /\ stepOut' = Append(stepOut, 0)
                    /\ UNCHANGED <<_prev_diff, _position>>
               ELSE IF bar_count = long
               THEN /\ _close_buffer' = <<>>
                    /\ _prev_diff' = diff
                    /\ stepOut' = Append(stepOut, _position)
                    /\ UNCHANGED _position
               ELSE /\ _position' = Crossover(diff, _prev_diff, _position)
                    /\ _prev_diff' = diff
                    /\ stepOut' = Append(stepOut, _position')
                    /\ UNCHANGED _close_buffer
    /\ UNCHANGED notCross

CrossNext == MACrossStep

----------------------------------------------------------------------------
\* The function-style live executor: execute() in executor/future.py and
\* the Future class that calls it, one candle per step.  Its context has
\* the fields of the other executor's; the profit formula and the retry
\* loop are written the same way in both files.

\* candles fed to Future.ack
MaxFutureBars == 2

\* _execute_close(client, instrument, context): an exception of
\* close_position is logged and not raised again
future_execute_close(ctx, cOut) ==
    IF ctx.holding_size = 0
    THEN [ctx |-> ctx, calls |-> <<>>]
    ELSE IF cOut[1]
    THEN [ctx |-> [ctx EXCEPT !.holding_size = 0],
          calls |-> <<Call("close_position", TRUE, ctx)>>]
    ELSE [ctx |-> ctx, calls |-> <<Call("close_position", FALSE, ctx)>>]

\* _execute_open(client, instrument, context, position, position_value):
\* holding_size is written when an attempt succeeds; giving up is logged
future_execute_open(ctx, position, position_value, oOut) ==
    LET price == IF ctx.entry_price = None THEN 1 ELSE ctx.entry_price
        size == Contracts(position_value, price)
        loop == OpenAttempts(1, ctx, oOut)
    IN  [ctx |-> IF loop.ok THEN [ctx EXCEPT !.holding_size = size] ELSE ctx,
         calls |-> loop.calls, sleeps |-> loop.sleeps]

\* the block that closes an existing position, on Close or Open: the
\* profit is booked and the trade logged, then the exchange is asked
future_close_existing(ctx, action, price, ts, cOut) ==
    IF action.kind \in {"Close", "Open"}
       /\ ctx.position # 0 /\ ctx.entry_price # None
    THEN LET pnl == Pnl(ctx, price)
             cap == ctx.capital + pnl
             booked == [ctx EXCEPT
                          !.capital = cap,
                          !.trades = Append(ctx.trades,
                              [time |-> ts, action |-> "close",
                               side |-> SideName(ctx.position),
                               price |-> price, pnl |-> pnl,
                               equity |-> cap])]
         IN  IF HasClient
             THEN future_execute_close(booked, cOut)
             ELSE [ctx |-> booked, calls |-> <<>>]
    ELSE [ctx |-> ctx, calls |-> <<>>]

\* execute(context, action, okx) of executor/future.py
future_execute(ctx, action, price, ts, levOk, cOut, oOut) ==
    LET lev == SetLeverage(ctx, levOk)
    IN  IF lev.raised
        THEN [ctx |-> lev.ctx, calls |-> lev.calls, sleeps |-> <<>>,
              outcome |-> "escaped"]
        ELSE IF action.kind = "NoAction"
        THEN [ctx |-> lev.ctx, calls |-> lev.calls, sleeps |-> <<>>,
              outcome |-> "done"]
        ELSE LET cl == future_close_existing(lev.ctx, action, price, ts, cOut)
                 c == cl.ctx
             IN  CASE action.kind = "Open" ->
                     LET position_value == (c.capital * action.size)
                                              \div (100 * ScaleUnit)
                         entered == [c EXCEPT
                                       !.entry_price = price,
                                       !.entry_scale = action.size,
                                       !.trades = Append(c.trades,
                                           [time |-> ts, action |-> "open",
                                            side |-> SideName(action.side),
                                            price |-> price,
                                            equity |-> c.capital])]
                         op == IF HasClient
                               THEN future_execute_open(entered, action.side,
                                                        position_value, oOut)
                               ELSE [ctx |-> entered, calls |-> <<>>,
                                     sleeps |-> <<>>]
                     IN  [ctx |-> [op.ctx EXCEPT !.position = action.side],
                          calls |-> lev.calls \o cl.calls \o op.calls,
                          sleeps |-> op.sleeps, outcome |-> "done"]
                  [] action.kind = "Close" ->
                     [ctx |-> [c EXCEPT !.entry_price = None,
                                        !.position = 0],
                      calls |-> lev.calls \o cl.calls, sleeps |-> <<>>,
                      outcome |-> "done"]
                  [] OTHER ->
                     [ctx |-> [c EXCEPT !.entry_scale = action.size,
                                        !.position = action.side],
                      calls |-> lev.calls \o cl.calls, sleeps |-> <<>>,
                      outcome |-> "done"]

\* Future.__init__ without preloaded bars
FutureVarsInit ==
    /\ futureContext = NewContext
    /\ futureLast = [bars |-> 0, pre |-> NewContext, action |-> NoAction,
                     price |-> 100, calls |-> <<>>, outcome |-> "none",
                     closeOut |-> AllOk(CloseAttempts)]

\* Future.ack(candle)
FutureAck ==
    /\ futureLast.outcome # "escaped"
    /\ futureLast.bars < MaxFutureBars
    /\ \E price \in Prices, action \in Actions, levOk \in BOOLEAN,
          cOut \in Answers(CloseAttempts),
          oOut \in Answers(max_retries) :
          \E r \in {future_execute(futureContext, action, price,
                                   futureLast.bars + 1, levOk, cOut, oOut)} :
              \* an answer is drawn only for a call that is made
              /\ CountOp(r.calls, "set_leverage") = 0 => levOk
              /\ CountOp(r.calls, "close_position") = 0
                    => cOut = AllOk(CloseAttempts)
              /\ CountOp(r.calls, "place_order") = 0
                    => oOut = AllOk(max_retries)
              /\ futureContext' = r.ctx
              /\ futureLast' = [bars |-> futureLast.bars + 1,
                                pre |-> futureContext,
                                action |-> action,
                                price |-> price,
                                calls |-> r.calls,
                                outcome |-> r.outcome,
                                closeOut |-> cOut]
    /\ UNCHANGED notFuture

FutureNext == FutureAck

----------------------------------------------------------------------------
\* The stop-loss overlay over the positions of a sizing strategy: in
\* main.py `strategies = [sl, ds]`, where drawdownscale.Strategy writes
\* positions of any magnitude up to max_scale.

\* bars of the frame the overlay is run over
MaxStopBars == 3

\* the position column the overlay is given: flat, a unit long or short,
\* and scaled ones
StopPositions == {RInt(SHORT), Rat(0 - 1, 2), RInt(0), Rat(1, 2),
                  RInt(LONG), RInt(2)}

\* a frame of no rows
StopVarsInit ==
    /\ stopFrame = <<>>
    /\ stopOut = <<>>

\* stoploss.Strategy(percent).generate_signals(df) over a frame one bar
\* longer
StopLossRun ==
    /\ Len(stopFrame) < MaxStopBars
    /\ \E close \in Closes, position \in StopPositions :
        LET df == Append(stopFrame, [close |-> close, position |-> position])
        IN  /\ stopFrame' = df
            /\ stopOut' = StopLoss([i \in 1..Len(df) |-> df[i].close],
                                   [i \in 1..Len(df) |-> df[i].position])
    /\ UNCHANGED notStop

StopNext == StopLossRun

----------------------------------------------------------------------------
\* Specifications: the executor and the telemetry writer are run separately

Init ==
    /\ OkxVarsInit /\ InfluxVarsInit /\ LiveVarsInit /\ BacktestVarsInit
    /\ StreamVarsInit /\ PaperVarsInit /\ BandVarsInit /\ CrossVarsInit
    /\ FutureVarsInit /\ StopVarsInit

OkxSpec == Init /\ [][OkxNext]_vars

\* the executor constructed with preloaded bars
OkxWarmSpec == Init /\ [][OkxWarmNext]_vars

InfluxSpec == Init /\ [][InfluxNext]_vars

\* the worker is a running thread, time passes, and a caller inside flush()
\* or close() keeps running
InfluxFairSpec ==
    /\ InfluxSpec
    /\ WF_vars(Worker)
    /\ WF_vars(Tick)
    /\ WF_vars(FlushPut \/ FlushJoin \/ FlushSpin)
    /\ WF_vars(CloseFlag \/ ClosePut \/ CloseJoin \/ CloseWorkerJoin)

LiveSpec == Init /\ [][LiveNext]_vars

BacktestSpec == Init /\ [][BacktestNext]_vars

StreamSpec == Init /\ [][StreamNext]_vars

PaperSpec == Init /\ [][PaperNext]_vars

BandSpec == Init /\ [][BandNext]_vars

CrossSpec == Init /\ [][CrossNext]_vars

FutureSpec == Init /\ [][FutureNext]_vars

StopSpec == Init /\ [][StopNext]_vars

\* the consuming thread goes on calling __next__, and a close() that was
\* started is finished
LiveFairSpec ==
    /\ LiveSpec
    /\ WF_vars(ConsumerNext \/ ConsumerGet \/ ConsumerTimeout \/ ConsumerBody
                  \/ ConsumerFinally \/ ConsumerClosePut \/ ConsumerNextLater)
    /\ WF_vars(CloserPut)

----------------------------------------------------------------------------
\* Properties of the executor

FailedCall(op) == \E i \in 1..Len(calls) : calls[i].op = op /\ ~calls[i].ok

OkCall(op) == \E i \in 1..Len(calls) : calls[i].op = op /\ calls[i].ok

AllFail(n) == [i \in 1..n |-> FALSE]

PositionState(ctx) ==
    <<ctx.position, ctx.entry_price, ctx.entry_scale, ctx.holding_size>>

\* the trade log grew by entries of the given kinds only
LogGrewOnlyBy(kinds) ==
    /\ Len(context.trades) >= Len(pre.trades)
    /\ SubSeq(context.trades, 1, Len(pre.trades)) = pre.trades
    /\ \A i \in (Len(pre.trades) + 1)..Len(context.trades) :
          context.trades[i].action \in kinds

\* C1: when the close_position call made for a Close action fails, the
\* context after the ack still records the open position: position,
\* entry_price, entry_scale, holding_size, capital and the trade log are what
\* they were before the ack.
C1_FailedCloseKeepsPosition ==
    (lastAction.kind = "Close" /\ FailedCall("close_position")) =>
        /\ PositionState(context) = PositionState(pre)
        /\ context.position # FLAT
        /\ context.capital = pre.capital
        /\ context.trades = pre.trades

C1_Witness ==
    /\ lastAction.kind = "Close"
    /\ FailedCall("close_position")
    /\ pre.holding_size # 0

\* C2: when place_order fails on every attempt made for an Open action, the
\* context is not marked as holding the new position: no exposure and no
\* entry price are recorded, position is not assigned (it is flat, or the
\* value it had when there was nothing to close), and no "open" entry is
\* appended to the trade log.
C2_FailedOpenNotMarked ==
    (lastAction.kind = "Open" /\ openOut = AllFail(max_retries)) =>
        /\ context.holding_size = 0
        /\ context.entry_price = None
        /\ context.position =
              (IF pre.entry_price = None THEN pre.position ELSE FLAT)
        /\ LogGrewOnlyBy({"close"})

C2_Witness ==
    /\ lastAction.kind = "Open"
    /\ openOut = AllFail(max_retries)
    /\ FailedCall("place_order")
    /\ context.position = FLAT

\* C3: strategy.confirm is called with an Open or Close action only if
\* execute carried the action out; when execute abandons the action after an
\* exchange failure, nothing is confirmed to the strategy.
C3_ConfirmOnlyCompleted ==
    (outcome = "abandoned") => confirmArg.kind \notin {"Open", "Close"}

\* C4: place_order is never called while the context records exposure; on a
\* direction flip the close_position call succeeds before place_order is
\* called, and when the close fails place_order is not called in that bar
\* and the prior exposure is kept.
C4_CloseBeforeOpen ==
    /\ \A i \in 1..Len(calls) :
          calls[i].op = "place_order" => calls[i].holding = 0
    /\ \A i, j \in 1..Len(calls) :
          (calls[i].op = "close_position" /\ calls[j].op = "place_order")
              => (i < j /\ calls[i].ok)
    /\ FailedCall("close_position") =>
          /\ CountOp(calls, "place_order") = 0
          /\ context.holding_size = pre.holding_size
          /\ context.holding_size # 0
          /\ context.position = pre.position
    /\ (lastAction.kind = "Open" /\ pre.holding_size # 0
           /\ CountOp(calls, "place_order") > 0)
          => OkCall("close_position")

C4_Witness ==
    /\ lastAction.kind = "Open"
    /\ pre.position = LONG
    /\ lastAction.side = SHORT
    /\ pre.holding_size # 0
    /\ OkCall("close_position")
    /\ OkCall("place_order")

NonDecreasing(seq) == \A i \in 1..(Len(seq) - 1) : seq[i] <= seq[i + 1]

\* C5: when place_order raises on every attempt for an Open action, it is
\* called exactly max_retries times, the delays between the attempts are
\* non-decreasing and never above retry_delay, the open is abandoned and no
\* exception leaves ack.
C5_OpenRetryBudget ==
    (lastAction.kind = "Open" /\ openOut = AllFail(max_retries)) =>
        /\ CountOp(calls, "place_order") = max_retries
        /\ Len(sleeps) = max_retries - 1
        /\ NonDecreasing(sleeps)
        /\ \A i \in 1..Len(sleeps) : sleeps[i] <= retry_delay
        /\ outcome = "abandoned"
        /\ ~escaped

C5_Witness ==
    /\ lastAction.kind = "Open"
    /\ openOut = AllFail(max_retries)
    /\ CountOp(calls, "place_order") = max_retries
    /\ bars < MaxBars
    /\ ENABLED Ack

\* C6: a close_position call that fails on its first attempt and would
\* succeed on the next one is attempted again, and the position is closed
\* in that same bar.
C6_CloseIsRetried ==
    (lastAction.kind = "Close" /\ pre.holding_size # 0
       /\ pre.position # FLAT /\ pre.entry_price # None
       /\ ~closeOut[1] /\ closeOut[2]) =>
        /\ CountOp(calls, "close_position") >= 2
        /\ context.position = FLAT
        /\ context.holding_size = 0

\* C7 as stated: whenever an action is abandoned after an exchange failure,
\* the position state after the ack is the state before the ack.
C7_AbandonedKeepsState ==
    (outcome = "abandoned") => PositionState(context) = PositionState(pre)

\* C7 amended: an abandoned action leaves the position state as it was
\* before the ack, except for an Open whose close of the previous position
\* succeeded before place_order failed: there the context is flat, with
\* the close booked and the scale unchanged.  No exception leaves ack.
C7_AbandonedKeepsStateOrFlat ==
    (outcome = "abandoned") =>
        /\ ~escaped
        /\ IF OkCall("close_position")
           THEN /\ lastAction.kind = "Open"
                /\ FailedCall("place_order")
                /\ PositionState(context) =
                      <<FLAT, None, pre.entry_scale, 0>>
                /\ LogGrewOnlyBy({"close"})
                /\ Len(context.trades) = Len(pre.trades) + 1
           ELSE /\ PositionState(context) = PositionState(pre)
                /\ context.capital = pre.capital
                /\ context.trades = pre.trades

C7_Witness ==
    /\ outcome = "abandoned"
    /\ lastAction.kind = "Open"
    /\ pre.position # FLAT
    /\ OkCall("close_position")
    /\ FailedCall("place_order")
    /\ context.position = FLAT

\* C8: set_leverage is called at most once in a run, and before the first
\* place_order or close_position call.
C8_LeverageOnceBeforeOrders ==
    /\ levCalls <= 1
    /\ ~orderBeforeLev
    /\ \A i \in 1..Len(calls) :
          IsOrderCall(calls[i]) => (levCalls = 1 /\ context.leverage_set)

C8_Witness ==
    /\ levCalls = 1
    /\ bars >= 2
    /\ CountOp(calls, "set_leverage") = 0
    /\ OkCall("place_order")

----------------------------------------------------------------------------
\* Properties of the telemetry writer

\* C9: close() always returns.  It waits in self._queue.join() for every
\* task to be marked done, so while it waits with tasks outstanding the
\* worker, the only thread that marks them done, must still be running.
C9_CloseAlwaysReturns ==
    ~(mpc = "close_join" /\ unfinished > 0 /\ wpc = "exited")

\* C10: when flush() returns, every line enqueued before the call has been
\* posted or dropped, and a flush() that started does return.
C10_FlushDeliversAndReturns ==
    /\ [](undelivered = {})
    /\ (mpc = "flush_put") ~> (mpc = "idle")

C10_Witness ==
    /\ flushReturns > 0
    /\ mpc = "idle"
    /\ flushSnap = 1..MaxLines
    /\ dropped # {}
    /\ posted # {}

\* each delay is twice the one before, from BackoffBase up to BackoffCap
BackoffDoubles(seq) ==
    \A i \in 1..Len(seq) :
        seq[i] = IF i = 1 THEN BackoffBase
                 ELSE IF 2 * seq[i - 1] < BackoffCap THEN 2 * seq[i - 1]
                 ELSE BackoffCap

\* C11: a batch whose POSTs all fail is tried max_flush_retries + 1 times,
\* with backoffs of 0.5 s, 1 s, 2 s between the tries, and is then dropped;
\* after the drop the batch is empty and the retry counter is 0, and no
\* dropped line is ever in a successful POST.
C11_BoundedRetriesThenDrop ==
    /\ attempts <= max_flush_retries + 1
    /\ BackoffDoubles(backoffs)
    /\ wpc = "drop" => /\ attempts = max_flush_retries + 1
                       /\ Len(backoffs) = max_flush_retries
    /\ wpc = "after" => /\ batch = <<>>
                        /\ flush_retries = 0
    /\ posted \cap dropped = {}

\* a batch was dropped and the worker went on to post a later line
C11_Witness ==
    /\ dropped # {}
    /\ \E l \in posted : \A d \in dropped : l > d

\* C12: every line write() accepted is eventually in a successful POST or
\* dropped with its batch.
C12_EveryLineSettled ==
    \A l \in 1..MaxLines :
        (l \in Range(queue) \cup Range(batch)) ~> (l \in posted \cup dropped)

\* a lone line was posted with no flush() or close(): the interval elapsed
C12_Witness ==
    /\ written = 1
    /\ flushes = 0
    /\ closes = 0
    /\ posted = {1}

\* C13: the lines of the successful POSTs, in POST order, are in the order
\* they were written and none of them occurs twice.
C13_AtMostOnceInOrder ==
    \A i, j \in 1..Len(postedSeq) : i < j => postedSeq[i] < postedSeq[j]

C13_Witness ==
    /\ Len(postedSeq) = MaxLines
    /\ wpc = "after"

\* a close() call has returned
CloseReturned == closed /\ mpc = "idle"

\* C14: once a close() has returned, the queue and the batch are drained;
\* a later close() returns at once and changes nothing of the client, and
\* nothing is posted any more.
C14_CloseIdempotent ==
    /\ [](CloseReturned => /\ queue = <<>>
                           /\ batch = <<>>
                           /\ unfinished = 0)
    /\ [][CloseReturned /\ closes' # closes =>
              /\ mpc' = "idle"
              /\ UNCHANGED <<queue, unfinished, closed, flush_now, batch,
                             flush_retries, wpc, posted, dropped>>]_vars
    /\ [][CloseReturned => UNCHANGED <<postedSeq, attempts>>]_vars

\* the second close() call has returned
C14_Witness ==
    /\ closes = MaxCloses
    /\ CloseReturned
    /\ posted # {}

\* C15: once close() was called, a __next__ call that is waiting gets
\* StopIteration in the end, possibly after later calls that each return a
\* candle that was still queued.
C15_CloseUnblocksConsumer ==
    (stopped /\ cpc = "get") ~> raisedStop

\* StopIteration reached a consumer that was waiting when another thread
\* closed the channel, with the websocket thread gone without a sentinel
C15_Witness ==
    /\ raisedStop
    /\ kpc = "done"
    /\ ~runDone
    /\ rpc \in {"returned", "dead"}

\* C16: after a ConnectionClosed or timeout with close() not called the
\* websocket thread sleeps the fixed delay and connects again, and
\* StopIteration is raised only after close() was called.
C16_ReconnectKeepsIterating ==
    /\ [](raisedStop => stopped)
    /\ [](rpc \in {"final", "done", "returned"} => stopped)
    /\ [](\A i \in 1..Len(slept) : slept[i] = ReconnectDelay)
    /\ [][rpc = "except" /\ ~stopped /\ rpc' # rpc => rpc' = "sleep"]_vars
    /\ [][rpc = "sleep" /\ rpc' # rpc =>
              rpc' = "top" /\ Len(slept') = Len(slept) + 1]_vars
    /\ [][rpc = "top" /\ ~stopped /\ rpc' # rpc => rpc' = "connect"]_vars

\* a candle was delivered after a disconnect and the reconnect delay
C16_Witness ==
    /\ ~stopped
    /\ slept # <<>>
    /\ Len(delivered) > dropMark
    /\ cpc = "get"

\* C17: no candle delivered after a connection ended equals one delivered
\* before it ended.
C17_NoRedeliveryAcrossReconnect ==
    \A i \in 1..Len(delivered) : \A j \in 1..Len(delivered) :
        (drops > 0 /\ i <= dropMark /\ dropMark < j) =>
            delivered[i] # delivered[j]

Confirmed(candle) == candle.confirm

\* the StrategyCandle of every candle of seq
AsStrategyCandles(seq) == [i \in 1..Len(seq) |-> StrategyCandle(seq[i])]

IsPrefix(a, b) == Len(a) <= Len(b) /\ a = SubSeq(b, 1, Len(a))

\* C18: the candles passed to executor.ack are the confirmed candles the
\* channel delivered, in delivery order: always a prefix of them, and all
\* of them whenever the live loop is at its top.
C18_AckedAreConfirmedDelivered ==
    /\ IsPrefix(acked, AsStrategyCandles(SelectSeq(delivered, Confirmed)))
    /\ (~runDone /\ cpc \in {"iter", "get"}) =>
           acked = AsStrategyCandles(SelectSeq(delivered, Confirmed))

\* unconfirmed candles were delivered and skipped around an acked one
C18_Witness ==
    /\ Len(acked) = 1
    /\ Len(delivered) = 3
    /\ ~delivered[1].confirm
    /\ delivered[2].confirm
    /\ ~delivered[3].confirm
    /\ cpc = "iter"

\* an evaluate() has run on the bars so far
Evaluated == result # NoResult

\* the run of the first n bars with the same overlays
Truncated(n) == evaluate(SubSeq(rows, 1, n), strategies)

\* C19: the equity of the first bar is the capital, the equity of every
\* later bar is the equity before it times (1 + the final position of the
\* bar before times the close return into the bar), and neither it nor
\* the positions up to the bar change when the bars after it are left out,
\* whatever overlays are in the list.
C19_NoLookahead ==
    Evaluated =>
        /\ result.equity_curve[1] = RInt(capital)
        /\ \A i \in 2..Len(rows) :
              result.equity_curve[i] =
                  RMul(result.equity_curve[i - 1],
                       RAdd(RInt(1),
                            RMul(result.positions[i - 1],
                                 Rat(rows[i].close - rows[i - 1].close,
                                     rows[i - 1].close))))
        /\ \A i \in 1..Len(rows) :
              /\ Truncated(i).equity_curve[i] = result.equity_curve[i]
              /\ Truncated(i).positions = SubSeq(result.positions, 1, i)

\* all three overlays are in the list and one of them changed the position
\* of a bar that was followed by a move of the close
C19_Witness ==
    /\ Evaluated
    /\ Len(strategies) = Cardinality(Overlays)
    /\ Len(rows) = MaxBtBars
    /\ \E i \in 1..(Len(rows) - 1) :
          /\ result.positions[i] # RInt(rows[i].signal)
          /\ rows[i + 1].close # rows[i].close

\* the bars so far are the first bars of the worked example
OnExample ==
    /\ Len(rows) <= Len(ExampleCloses)
    /\ \A i \in 1..Len(rows) : rows[i] = ExampleRow(i)

\* C20: on closes 100, 105, 95, 90, 110 held long with no overlay and
\* capital 1000 the equity is 1000, 1050 and 950 after the first three
\* bars, and at the third bar the running peak is 1050 and the drawdown is
\* (950 - 1050) / 1050 of it.
C20_WorkedExample ==
    (Evaluated /\ OnExample /\ strategies = <<>> /\ Len(rows) >= 3) =>
        /\ capital = 1000
        /\ result.equity_curve[1] = RInt(1000)
        /\ result.equity_curve[2] = RInt(1050)
        /\ result.equity_curve[3] = RInt(950)
        /\ result.running_max[3] = RInt(1050)
        /\ result.drawdown[3] = RInt(950 - 1050)
        /\ result.drawdown_pct[3] = Rat(100 * (950 - 1050), 1050)

C20_Witness ==
    /\ Evaluated
    /\ OnExample
    /\ strategies = <<>>
    /\ Len(rows) = Len(ExampleCloses)
    /\ result.equity_curve[3] = RInt(950)

\* C21: the Sharpe value appended by an ack is exactly 0 when fewer than 2
\* return samples were accumulated, when the sample variance is <= 0 and
\* when no time elapsed between the first and the last bar; every value in
\* the Sharpe history is a finite number.
C21_SharpeZeroOrFinite ==
    /\ \A i \in 1..Len(_sharpe_history) :
           _sharpe_history[i][2].kind = "finite"
    /\ (/\ _sharpe_history # <<>>
        /\ \/ _return_count < 2
           \/ RLe(RDiv(_return_m2, RInt(_return_count - 1)), RInt(0))
           \/ _last_ts_ns - _first_ts_ns <= 0)
       => _sharpe_history[Len(_sharpe_history)][2] = SharpeZero

\* two equal returns were sampled over a positive time: the variance is 0
\* and the value appended is 0
C21_Witness ==
    /\ _return_count >= 2
    /\ _return_m2.n = 0
    /\ _last_ts_ns > _first_ts_ns
    /\ _sharpe_history[Len(_sharpe_history)][2] = SharpeZero

\* the output of stage j of a pipeline over the bars ohlc: stage 0 is the
\* base strategy, stage j is overlay j of the list given stage j - 1
RECURSIVE StageOutput(_, _, _)
StageOutput(ohlc, chain, j) ==
    IF j = 0 THEN [i \in 1..Len(ohlc) |-> RInt(ohlc[i].signal)]
    ELSE Overlay(chain[j], [i \in 1..Len(ohlc) |-> ohlc[i].close],
                 StageOutput(ohlc, chain, j - 1))

Reversed(chain) == [i \in 1..Len(chain) |-> chain[Len(chain) + 1 - i]]

\* C22: for a chain [o_1, ..., o_k, base] the positions are those of the
\* base strategy passed through o_1 first and o_k last, each overlay given
\* the output of the stage before it, in the live evaluate and in the
\* backtest evaluate alike.
C22_OverlaysInListedOrder ==
    (paperPc = "update" /\ paperOut.ran) =>
        /\ paperOut.position =
               StageOutput(paperCtx.ohlc, paperStrategies,
                           Len(paperStrategies))
        /\ evaluate(paperCtx.ohlc, paperStrategies).positions =
               StageOutput(paperCtx.ohlc, paperStrategies,
                           Len(paperStrategies))

\* a pipeline of all three overlays has run on bars where the order of the
\* overlays makes a difference
C22_Witness ==
    /\ paperPc = "update"
    /\ paperOut.ran
    /\ Len(paperStrategies) = 3
    /\ paperOut.position #
           StageOutput(paperCtx.ohlc, Reversed(paperStrategies),
                       Len(paperStrategies))

\* C23: the overlays are applied in reverse list order: with strategies
\* [sl, eg, dr] the equity guard runs on the base positions and the
\* stop-loss runs on the equity guard's output.
C23_ReverseListOrder ==
    Evaluated =>
        result.positions =
            StageOutput(rows, Reversed(strategies), Len(strategies))

\* C24: on every bar the position an overlay puts out is 0 or has the sign
\* of the position it was given for that bar; the stop-loss and the equity
\* guard put out the position they were given or 0.
C24_OverlayKeepsDirection ==
    Evaluated =>
        \A j \in 1..Len(strategies) : \A i \in 1..Len(rows) :
            LET given == StageOutput(rows, strategies, j - 1)[i]
                out == StageOutput(rows, strategies, j)[i]
            IN  \/ out = RInt(0)
                \/ /\ out.n * given.n > 0
                   /\ strategies[j] \in {"stoploss", "equityguard"}
                          => out = given

\* each kind of overlay has changed a position: the drawdown overlay has
\* scaled a short position down, and the stop-loss and the equity guard
\* have each made a position flat
C24_Witness ==
    /\ Evaluated
    /\ \E j \in 1..Len(strategies) : \E i \in 1..Len(rows) :
          /\ strategies[j] = "drawdown"
          /\ StageOutput(rows, strategies, j - 1)[i] = RInt(SHORT)
          /\ StageOutput(rows, strategies, j)[i] = Rat(0 - 1, 2)
    /\ \E j \in 1..Len(strategies) : \E i \in 1..Len(rows) :
          /\ strategies[j] = "stoploss"
          /\ StageOutput(rows, strategies, j - 1)[i] # RInt(0)
          /\ StageOutput(rows, strategies, j)[i] = RInt(0)
    /\ \E j \in 1..Len(strategies) : \E i \in 1..Len(rows) :
          /\ strategies[j] = "equityguard"
          /\ StageOutput(rows, strategies, j - 1)[i] # RInt(0)
          /\ StageOutput(rows, strategies, j)[i] = RInt(0)

\* the positions and the loop state of the stop-loss overlay after bar n
RECURSIVE StopLossAfter(_, _, _)
StopLossAfter(n, closeSeq, positions) ==
    IF n = 0 THEN [positions |-> positions, st |-> StopLossStart]
    ELSE LET before == StopLossAfter(n - 1, closeSeq, positions)
         IN  StopLossStep(n, closeSeq, before.positions, before.st)

CloseSeq == [i \in 1..Len(rows) |-> rows[i].close]

\* C25: when the stop-loss overlay stops out a position of direction d on a
\* bar (the loss from the entry price has reached the threshold), its
\* output is 0 on that bar and on every later bar while the position it is
\* given is still d, and it stays stopped; on the first bar where the
\* position it is given differs from d it re-arms with that bar's close as
\* the entry price and passes the position.  Long from 100 with a 10%
\* threshold is stopped on the close 89, not on 95.
C25_StoppedUntilBaseChanges ==
    /\ percent = 10
    /\ StopLoss(<<100, 95, 89>>, <<RInt(LONG), RInt(LONG), RInt(LONG)>>)
           = <<RInt(LONG), RInt(LONG), RInt(0)>>
    /\ Evaluated =>
        \A j \in 1..Len(strategies) : strategies[j] = "stoploss" =>
            LET given == StageOutput(rows, strategies, j - 1)
                out == StageOutput(rows, strategies, j)
                S(n) == StopLossAfter(n, CloseSeq, given).st
            IN  \A i \in 1..Len(rows) :
                    (~S(i - 1).stopped_out /\ S(i).stopped_out) =>
                        LET d == S(i).stopped_out_direction
                            entry == S(i - 1).entry_price
                        IN  /\ d = given[i]
                            /\ d # RInt(0)
                            /\ d = RInt(LONG) =>
                                   100 * (entry - CloseSeq[i])
                                       >= percent * entry
                            /\ d = RInt(SHORT) =>
                                   100 * (CloseSeq[i] - entry)
                                       >= percent * entry
                            /\ out[i] = RInt(0)
                            /\ \A k \in (i + 1)..Len(rows) :
                                   IF \A m \in (i + 1)..k : given[m] = d
                                   THEN /\ out[k] = RInt(0)
                                        /\ S(k).stopped_out
                                        /\ S(k).stopped_out_direction = d
                                   ELSE (\A m \in (i + 1)..(k - 1) :
                                             given[m] = d)
                                        => /\ ~S(k).stopped_out
                                           /\ S(k).entry_price = CloseSeq[k]
                                           /\ out[k] = given[k]

\* a long position was stopped out on the second bar and the third bar,
\* still long in the base, is flat too
C25_Witness ==
    /\ Evaluated
    /\ strategies = <<"stoploss">>
    /\ Len(rows) = 3
    /\ result.positions = <<RInt(LONG), RInt(0), RInt(0)>>
    /\ \A i \in 1..3 : rows[i].signal = LONG

\* the equity after bar i of holding the positions given, from 1.0
RECURSIVE GuardEquity(_, _, _)
GuardEquity(i, closeSeq, given) ==
    IF i = 1 THEN RInt(1)
    ELSE RMul(GuardEquity(i - 1, closeSeq, given),
              RAdd(RInt(1), RMul(given[i - 1], BarReturn(closeSeq, i))))

\* its highest value up to bar i, in percent the drawdown from there
RECURSIVE GuardPeak(_, _, _)
GuardPeak(i, closeSeq, given) ==
    IF i = 1 THEN RInt(1)
    ELSE RMax(GuardPeak(i - 1, closeSeq, given),
              GuardEquity(i, closeSeq, given))

GuardDrawdown(i, closeSeq, given) ==
    RMul(RDiv(RSub(GuardEquity(i, closeSeq, given),
                   GuardPeak(i, closeSeq, given)),
              GuardPeak(i, closeSeq, given)),
         RInt(100))

\* paused on bar i: a pause starts on a bar that is max_dd_pct or more
\* below the peak and lasts until the first bar within resume_pct of it
RECURSIVE GuardPaused(_, _, _)
GuardPaused(i, closeSeq, given) ==
    IF i = 0 THEN FALSE
    ELSE IF GuardPaused(i - 1, closeSeq, given)
    THEN ~RLe(RInt(0 - resume_pct), GuardDrawdown(i, closeSeq, given))
    ELSE RLe(GuardDrawdown(i, closeSeq, given), RInt(0 - max_dd_pct))

\* C26: the equity guard pauses on the bar where the equity of the
\* positions it is given is max_dd_pct below its peak; while paused it puts
\* out position 0 and equity_guard 0, up to the first bar whose drawdown is
\* within resume_pct of the peak, where it passes the position again; on
\* every other bar it passes the position with equity_guard 1.  Long on
\* closes 100, 94, 97, 99, 96 with max_dd_pct 5 and resume_pct 2: paused at
\* 94 (6% down) and at 97 (3% down), passing again at 99 (1% down) and at
\* 96 (4% down).
C26_PausedUntilRecovered ==
    /\ max_dd_pct = 5
    /\ resume_pct = 2
    /\ EquityGuardFrame(<<100, 94, 97, 99, 96>>,
                        [i \in 1..5 |-> RInt(LONG)])
           = [position |-> <<RInt(LONG), RInt(0), RInt(0), RInt(LONG),
                             RInt(LONG)>>,
              equity_guard |-> <<1, 0, 0, 1, 1>>]
    /\ Evaluated =>
        \A j \in 1..Len(strategies) : strategies[j] = "equityguard" =>
            LET given == StageOutput(rows, strategies, j - 1)
                frame == EquityGuardFrame(CloseSeq, given)
            IN  /\ frame.position = StageOutput(rows, strategies, j)
                /\ \A i \in 1..Len(rows) :
                       IF GuardPaused(i, CloseSeq, given)
                       THEN /\ frame.position[i] = RInt(0)
                            /\ frame.equity_guard[i] = 0
                       ELSE /\ frame.position[i] = given[i]
                            /\ frame.equity_guard[i] = 1

\* long throughout: paused on the fall from 5 to 4, and passing the long
\* position again on the new high at 6
C26_Witness ==
    /\ Evaluated
    /\ strategies = <<"equityguard">>
    /\ CloseSeq = <<5, 4, 6>>
    /\ \A i \in 1..3 : rows[i].signal = LONG
    /\ EquityGuardFrame(CloseSeq, <<RInt(LONG), RInt(LONG), RInt(LONG)>>)
           = [position |-> <<RInt(LONG), RInt(0), RInt(LONG)>>,
              equity_guard |-> <<1, 0, 1>>]
    /\ result.positions = <<RInt(LONG), RInt(0), RInt(LONG)>>

\* the items of the dict given whose key is <= the drawdown
Breached(drawdown_pct) ==
    {i \in 1..Len(sizeArg) : RLe(RInt(sizeArg[i].level), drawdown_pct)}

\* C27: the overlay multiplies the bar's position by the scale of the
\* largest key of the table that is <= the drawdown of the bar, in
\* whatever order the table was given, and by 1.0 when no key is <= the
\* drawdown; with a scale of 0 the position is 0.
C27_ScaleOfLargestBreachedKey ==
    LET breached == Breached(sizeBar.drawdown_pct)
        largest == CHOOSE i \in breached :
                       \A j \in breached :
                           sizeArg[j].level <= sizeArg[i].level
        scale == IF breached = {} THEN RInt(1) ELSE sizeArg[largest].scale
    IN  /\ sizeBar.scaled = RMul(sizeBar.position, scale)
        /\ scale = RInt(0) => sizeBar.scaled = RInt(0)

\* a table given lowest key first, both keys breached, and the bar scaled
\* by the second, larger key
C27_Witness ==
    /\ Len(sizeArg) = 2
    /\ sizeArg[1].level < sizeArg[2].level
    /\ sizeArg[1].scale # sizeArg[2].scale
    /\ RLe(RInt(sizeArg[2].level), sizeBar.drawdown_pct)
    /\ sizeBar.position # RInt(0)
    /\ sizeBar.scaled = RMul(sizeBar.position, sizeArg[2].scale)

\* C28 as stated: for all drawdowns d1 < d2 the scale selected for d2 is
\* <= the scale selected for d1, whatever the table.
C28_Monotonic ==
    \A d1 \in BandDrawdowns : \A d2 \in BandDrawdowns :
        (d1 # d2 /\ RLe(d1, d2)) =>
            RLe(ScaleFor(sizeTable, d2), ScaleFor(sizeTable, d1))

\* the scales of the table do not grow with the level and none is above 1
ScalesFallWithLevel ==
    /\ \A i \in 1..Len(sizeArg) : RLe(sizeArg[i].scale, RInt(1))
    /\ \A i \in 1..Len(sizeArg) : \A j \in 1..Len(sizeArg) :
           sizeArg[i].level < sizeArg[j].level
               => RLe(sizeArg[j].scale, sizeArg[i].scale)

\* C28, amended: for a table whose scales do not grow with the level and
\* are at most 1.0, for all drawdowns d1 < d2 the scale selected for d2 is
\* <= the scale selected for d1, also when d1 is below every threshold.
C28_MonotonicForFallingScales ==
    ScalesFallWithLevel =>
        \A d1 \in BandDrawdowns : \A d2 \in BandDrawdowns :
            (d1 # d2 /\ RLe(d1, d2)) =>
                RLe(ScaleFor(sizeTable, d2), ScaleFor(sizeTable, d1))

\* a table of two falling scales with no threshold at 0, and a bar scaled
\* by the smaller one
C28_Witness ==
    /\ ScalesFallWithLevel
    /\ Len(sizeArg) = 2
    /\ \A i \in 1..2 : sizeArg[i].level > 0
    /\ sizeArg[1].scale # sizeArg[2].scale
    /\ sizeBar.position = RInt(LONG)
    /\ sizeBar.scaled = RInt(0)
    /\ ScaleFor(sizeTable, RInt(0)) = RInt(1)

\* the positions and the loop state of the drawdown overlay after bar n
RECURSIVE DrawdownAfter(_, _, _)
DrawdownAfter(n, closeSeq, positions) ==
    IF n = 0 THEN [positions |-> positions, st |-> DrawdownStart]
    ELSE LET before == DrawdownAfter(n - 1, closeSeq, positions)
         IN  DrawdownStep(n, closeSeq, before.positions, before.st)

\* the bars whose equity is in the window at bar i
WindowBars(i) == {m \in 1..i : m > i - window}

\* C29: at every bar the peak of the drawdown overlay is the maximum of
\* the last `window` values of its simulated equity, the value of the bar
\* included, so that a high older than that no longer counts; the drawdown
\* of the bar is (peak - equity) / peak of it and is >= 0.
C29_RollingPeak ==
    Evaluated =>
        \A j \in 1..Len(strategies) : strategies[j] = "drawdown" =>
            LET given == StageOutput(rows, strategies, j - 1)
                out == StageOutput(rows, strategies, j)
                S(n) == DrawdownAfter(n, CloseSeq, given).st
                E(m) == GuardEquity(m, CloseSeq, out)
            IN  \A i \in 1..Len(rows) :
                    /\ S(i).equity = E(i)
                    /\ \E m \in WindowBars(i) : S(i).peak = E(m)
                    /\ \A m \in WindowBars(i) : RLe(E(m), S(i).peak)
                    /\ S(i).drawdown_pct =
                           RMul(RDiv(RSub(S(i).peak, E(i)), S(i).peak),
                                RInt(100))
                    /\ RLe(RInt(0), S(i).drawdown_pct)

\* the starting equity has left the window: the peak of the last bar is
\* below it, and the bar is in drawdown from that lower peak
C29_Witness ==
    /\ Evaluated
    /\ strategies = <<"drawdown">>
    /\ Len(rows) > window
    /\ LET st == DrawdownAfter(Len(rows), CloseSeq,
                               StageOutput(rows, strategies, 0)).st
       IN  /\ ~RLe(RInt(1), st.peak)
           /\ ~RLe(st.drawdown_pct, RInt(0))

\* the EMA of the given period at bar n >= period of the closes stepped
\* through: the mean of the first `period` closes, then the recursion
RECURSIVE EmaAt(_, _)
EmaAt(period, n) ==
    IF n = period THEN Mean(SubSeq(stepIn, 1, period), period)
    ELSE EmaUpdate(Alpha(period), stepIn[n], EmaAt(period, n - 1))

\* short EMA - long EMA at bar n >= long
DiffAt(n) == RSub(EmaAt(short, n), EmaAt(long, n))

\* C30: step answers 0 on every bar up to and including the bar that seeds
\* the long EMA; on a later bar it answers +1 when short EMA - long EMA is
\* above 0 and was not on the bar before, -1 when it is below 0 and was not
\* on the bar before, and the answer of the bar before otherwise; so the
\* answer changes only where the difference changes sign, and an answer
\* that is not 0 is never followed by 0.
C30_ChangesOnlyOnCrossover ==
    /\ Len(stepOut) = Len(stepIn)
    /\ \A n \in 1..Len(stepOut) :
        IF n <= long THEN stepOut[n] = 0
        ELSE LET up == DiffAt(n).n > 0 /\ DiffAt(n - 1).n <= 0
                 down == DiffAt(n).n < 0 /\ DiffAt(n - 1).n >= 0
             IN  /\ up => stepOut[n] = 1
                 /\ down => stepOut[n] = 0 - 1
                 /\ ~(up \/ down) => stepOut[n] = stepOut[n - 1]
                 /\ stepOut[n - 1] # 0 => stepOut[n] # 0

\* after the seed bar the answer went to +1 on an upward cross, was held
\* for a bar without a cross, and went to -1 on a downward cross
C30_Witness ==
    \E n \in (long + 1)..(Len(stepOut) - 2) :
        /\ stepOut[n - 1] = 0
        /\ stepOut[n] = 1
        /\ stepOut[n + 1] = 1
        /\ stepOut[n + 2] = 0 - 1

\* MACross.generate_signals in signal/macross.py: the batch form, whole
\* columns at a time over the closes of a frame of at least `long` rows.

\* a missing value of a float column
NaN == [n |-> 0, d |-> 0]

\* an EMA started at the first close, with no SMA seed and no missing rows
RECURSIVE ta_ema_unseeded(_, _)
ta_ema_unseeded(column, length) ==
    IF column = <<>> THEN <<>>
    ELSE LET n == Len(column)
             before == ta_ema_unseeded(SubSeq(column, 1, n - 1), length)
         IN  IF n = 1 THEN <<RInt(column[1])>>
             ELSE Append(before,
                         EmaUpdate(Alpha(length), column[n], before[n - 1]))

\* ta.ema(column, length): missing on the first length - 1 rows, the mean of
\* the first `length` values on row `length`, then the exponentially
\* weighted mean with alpha = 2 / (length + 1), adjust=False
RECURSIVE ta_ema(_, _)
ta_ema(column, length) ==
    IF column = <<>> THEN <<>>
    ELSE LET n == Len(column)
             before == ta_ema(SubSeq(column, 1, n - 1), length)
         IN  IF n < length THEN Append(before, NaN)
             ELSE IF n = length THEN Append(before, Mean(column, length))
             ELSE Append(before,
                         EmaUpdate(Alpha(length), column[n], before[n - 1]))

\* out["ema_short"] - out["ema_long"]: missing where either side is
ColumnSub(a, b) ==
    [i \in 1..Len(a) |-> IF a[i] = NaN \/ b[i] = NaN THEN NaN
                         ELSE RSub(a[i], b[i])]

\* diff.shift(1): the value of the row before, missing on the first row
ColumnShift(column) ==
    [i \in 1..Len(column) |-> IF i = 1 THEN NaN ELSE column[i - 1]]

\* the signal column: +1 where cross_up, -1 where cross_down, else 0; a
\* comparison with a missing value is False
SignalColumn(diff) ==
    LET prev == ColumnShift(diff)
        cross_up(i) == /\ diff[i] # NaN /\ diff[i].n > 0
                       /\ prev[i] # NaN /\ prev[i].n <= 0
        cross_down(i) == /\ diff[i] # NaN /\ diff[i].n < 0
                         /\ prev[i] # NaN /\ prev[i].n >= 0
    IN  [i \in 1..Len(diff) |-> IF cross_down(i) THEN 0 - 1
                                ELSE IF cross_up(i) THEN 1
                                ELSE 0]

\* replace(0, pd.NA).ffill().fillna(0): the last signal that is not 0 up to
\* the row, 0 before the first one
RECURSIVE ForwardFill(_)
ForwardFill(signal) ==
    IF signal = <<>> THEN <<>>
    ELSE LET n == Len(signal)
             before == ForwardFill(SubSeq(signal, 1, n - 1))
         IN  Append(before,
                    IF signal[n] # 0 THEN signal[n]
                    ELSE IF n = 1 THEN 0
                    ELSE before[n - 1])

\* generate_signals(df): the position column
generate_signals(closeColumn) ==
    ForwardFill(SignalColumn(ColumnSub(ta_ema(closeColumn, short),
                                       ta_ema(closeColumn, long))))

\* C31: after any number of calls of step on a fresh MACross, the values
\* returned so far are the rows of the position column generate_signals
\* computes over the same closes (all 0 while there are fewer closes than
\* the long period); the values returned are therefore a function of the
\* closes fed, the same for any two instances.
C31_StepAgreesWithBatch ==
    /\ Len(stepOut) = Len(stepIn)
    /\ Len(stepIn) >= long => stepOut = generate_signals(stepIn)
    /\ Len(stepIn) < long => \A n \in 1..Len(stepOut) : stepOut[n] = 0

\* both forms went long on a cross, held, and went short on a later cross
C31_Witness ==
    /\ Len(stepIn) > long + 2
    /\ stepOut = generate_signals(stepIn)
    /\ \E n \in (long + 1)..(Len(stepOut) - 1) :
        /\ stepOut[n] = 1
        /\ stepOut[n + 1] = 1
        /\ \E m \in (n + 2)..Len(stepOut) : stepOut[m] = 0 - 1

\* C32: the Open the streaming backtester confirms to the strategy
\* carries the open price of the candle it was returned for, and each
\* candle acked has exactly one confirm call.
C32_FillAtOpen ==
    /\ streamConfirm.calls = Len(_equity_history)
    /\ (streamConfirm.calls > 0 /\ streamConfirm.action.kind = "Open")
           => streamConfirm.action.price = streamConfirm.candle.open

\* C33: an ack whose action is Adjust makes no place_order and no
\* close_position call and leaves capital, entry_price, holding_size and
\* the trade log as they were; when execute returns, entry_scale and
\* position are the size and side of the action, and nothing else of the
\* context differs but the flag that remembers the leverage call.
C33_AdjustOnlyRescales ==
    (bars > 0 /\ lastAction.kind = "Adjust") =>
        /\ \A i \in 1..Len(calls) : ~IsOrderCall(calls[i])
        /\ context.capital = pre.capital
        /\ context.entry_price = pre.entry_price
        /\ context.holding_size = pre.holding_size
        /\ context.trades = pre.trades
        /\ context.initial_capital = pre.initial_capital
        /\ outcome = "done" =>
              /\ context.entry_scale = lastAction.size
              /\ context.position = lastAction.side
        /\ outcome # "done" => context = pre

\* an Adjust on an open position with exposure on the exchange changed
\* both the scale and the side
C33_Witness ==
    /\ bars > 0
    /\ lastAction.kind = "Adjust"
    /\ outcome = "done"
    /\ pre.position # FLAT
    /\ pre.holding_size # 0
    /\ context.position # pre.position
    /\ context.entry_scale # pre.entry_scale
    /\ context.holding_size = pre.holding_size

\* the last ack of the function-style executor made a close_position call
\* that the exchange failed
FutureCloseFailed ==
    /\ futureLast.bars > 0
    /\ \E i \in 1..Len(futureLast.calls) :
        /\ futureLast.calls[i].op = "close_position"
        /\ ~futureLast.calls[i].ok

\* C34: after an ack of the function-style executor in which close_position
\* failed, the context is not flat, a Close left holding_size as it was,
\* capital is what it was before the ack and no "close" trade of that bar
\* is in the trade log.
C34_FailedCloseNotBooked ==
    FutureCloseFailed =>
        /\ futureContext.position # FLAT
        /\ futureLast.action.kind = "Close"
              => futureContext.holding_size = futureLast.pre.holding_size
        /\ futureContext.capital = futureLast.pre.capital
        /\ \A i \in 1..Len(futureContext.trades) :
              ~(/\ futureContext.trades[i].action = "close"
                /\ futureContext.trades[i].time = futureLast.bars)

\* C35: in every state of the executor's context, position is not 0
\* exactly when entry_price is set; and after an ack whose action was Close
\* and in which no exchange call failed, position is 0.
C35_PositionIffEntryPrice ==
    /\ (context.position # FLAT) <=> (context.entry_price # None)
    /\ (/\ bars > 0
        /\ lastAction.kind = "Close"
        /\ \A i \in 1..Len(calls) : calls[i].ok)
           => context.position = FLAT

\* C36: when the constructor has warmed the strategy up and no candle has
\* been acked yet, the context is flat with nothing held, and what was
\* last confirmed to the strategy is not an Open or Adjust of a side the
\* context does not hold.
C36_WarmupAgrees ==
    (bars = 0 /\ confirmArg # NotConfirmed) =>
        /\ context.position = FLAT
        /\ context.holding_size = 0
        /\ calls = <<>>
        /\ confirmArg.kind \in {"Open", "Adjust"}
              => confirmArg.side = context.position

\* the sum of the pnl fields of the "close" entries of a trade log
RECURSIVE ClosedPnl(_)
ClosedPnl(trades) ==
    IF trades = <<>> THEN 0
    ELSE LET n == Len(trades)
             before == ClosedPnl(SubSeq(trades, 1, n - 1))
         IN  IF trades[n].action = "close" THEN before + trades[n].pnl
             ELSE before

\* the "close" entries of a trade log
CloseEntries(trades) ==
    Cardinality({i \in 1..Len(trades) : trades[i].action = "close"})

\* C37 as stated: capital is always initial_capital plus the sum of the
\* pnl of the "close" entries of the trade log; an ack changes capital only
\* when it appends a "close" entry, and never when any of its exchange
\* calls failed.
C37_NeverOnAnyFailure ==
    /\ context.capital = context.initial_capital + ClosedPnl(context.trades)
    /\ context.capital # pre.capital
          => /\ CloseEntries(context.trades) = CloseEntries(pre.trades) + 1
             /\ \A i \in 1..Len(calls) : calls[i].ok

\* C37, amended: capital is always initial_capital plus the sum of the pnl
\* of the "close" entries of the trade log; an ack changes capital only
\* when it appends a "close" entry, and never when its set_leverage or
\* close_position call failed.  A place_order that fails after the close
\* was booked leaves the changed capital in place.
C37_CapitalIsRealisedPnl ==
    /\ context.initial_capital = InitialCapital
    /\ context.capital = context.initial_capital + ClosedPnl(context.trades)
    /\ context.capital # pre.capital
          => /\ CloseEntries(context.trades) = CloseEntries(pre.trades) + 1
             /\ \A i \in 1..Len(calls) :
                   calls[i].op \in {"set_leverage", "close_position"}
                       => calls[i].ok

\* a close at a price away from the entry changed capital, and the open
\* that followed it in the same ack failed
C37_Witness ==
    /\ context.capital # pre.capital
    /\ context.capital # InitialCapital
    /\ lastAction.kind = "Open"
    /\ outcome = "abandoned"
    /\ \E i \in 1..Len(calls) : calls[i].op = "place_order" /\ ~calls[i].ok

\* the stop-loss loop over the frame, after bar n
StopRunAfter(n) ==
    StopLossAfter(n, [i \in 1..Len(stopFrame) |-> stopFrame[i].close],
                  [i \in 1..Len(stopFrame) |-> stopFrame[i].position])

\* C38: whenever the stop-loss overlay stops a position out on a bar, the
\* price has moved against the position by at least the threshold since
\* the entry: for a position above 0 of any magnitude the close is at or
\* below entry * (1 - percent/100), for one below 0 it is at or above
\* entry * (1 + percent/100).
C38_StoppedOnLossOnly ==
    \A n \in 1..Len(stopFrame) :
        LET before == StopRunAfter(n - 1).st
            after == StopRunAfter(n).st
            price == stopFrame[n].close
            fresh == after.stopped_out /\ ~before.stopped_out
            \* the entry the loss is measured from: the one held, or this
            \* bar's close when the bar re-armed the overlay
            entry == IF before.entry_price # None THEN before.entry_price
                     ELSE price
        IN  fresh =>
              IF after.stopped_out_direction.n > 0
              THEN price * 100 <= entry * (100 - percent)
              ELSE price * 100 >= entry * (100 + percent)

\* the websocket thread is over: its loop was left past the final put, it
\* returned from inside the message loop, or an exception ended it
ReaderOver == rpc \in {"done", "returned", "dead"}

\* C39: once the websocket thread is over, whatever ended it, the consumer
\* is eventually raised StopIteration by __next__.
C39_ReaderOverEndsIteration == ReaderOver ~> raisedStop

\* C40: when the worker drops its batch, every line in it has been in more
\* than max_flush_retries failed POSTs, and the batch the worker posts
\* never holds more than batch_size lines.
C40_DroppedOnOwnFailures ==
    /\ wpc = "drop" =>
          \A i \in 1..Len(batch) : batchFailures[i] > max_flush_retries
    /\ wpc = "post" => Len(batch) <= batch_size

----------------------------------------------------------------------------

Next == OkxNext

Spec == OkxSpec

====
